---- MODULE Spec2Model ----
(***************************************************************************)
(* Promotion-banner synchronisation: the table-API engine                  *)
(* (src/utils/sp-graph-api-util.js), the commerce update handler           *)
(* (src/unnamed/part_002) and the whole-file conflict-retry upload         *)
(* (src/utils/spo-file-update.js).                                         *)
(*                                                                         *)
(* JavaScript values are encoded as tagged strings: "n:1" is the number 1, *)
(* "s:1" the string "1", "b:true" the boolean true, "n:NaN" is NaN.        *)
(* A field that is absent from an object is absent from the DOMAIN of the  *)
(* record that models it.                                                  *)
(***************************************************************************)
EXTENDS Integers, Sequences, FiniteSets, TLC

VARIABLES
    \* module-level state of sp-graph-api-util.js (line 8)
    loadedSiteId, loadedStoreCode, loadedHeaderRow, loadedStore,
    loadedWorkSheetId, loadedTableId, loadedAccessToken, loadedFilePath,
    \* the remote tabular store: file key -> workbook
    files,
    \* requests issued by the handler step that ran last, in issue order
    reqs,
    \* what the engine call of the last handler step did
    call,
    \* update handler (part_002 main): position, event, loop remainders, response
    \* trace: the engine calls of the current event, in call order
    pc, event, removeFromWebsites, newwebsiteCodes, response, nEvents, trace,
    \* retryFileUpload: count, the interval timer, attempts in flight / issued,
    \* the outcome the remote gives each attempt, and whether the caller returned
    count, retryInterval, inFlight, issued, lockedFor, afterLock, uploadReturned,
    \* uploadFileToOneDrive, first version (delete and re-write on a lock): the
    \* call's position, the uploads started, the content of the remote file
    \* ({} when the file does not exist),
    \* the deletes awaiting their response, the uploads whose delete removed
    \* the file, and the uploads whose re-write stored their content
    direct,
    \* the last call of an exported engine function by a caller of the module:
    \* function, argument, whether it returned, value or error, and the site
    \* code of the last file lookup
    api

engineVars == <<loadedSiteId, loadedStoreCode, loadedHeaderRow, loadedStore,
                loadedWorkSheetId, loadedTableId, loadedAccessToken, loadedFilePath,
                files, reqs, call>>
handlerVars == <<pc, event, removeFromWebsites, newwebsiteCodes, response, nEvents, trace>>
retryVars == <<count, retryInterval, inFlight, issued, lockedFor, afterLock, uploadReturned,
               direct>>
vars == <<engineVars, handlerVars, retryVars, api>>

-----------------------------------------------------------------------------
(* Bounds of the model *)

\* rows a table may hold before the model stops starting events that append
MaxRows == 3
\* handler invocations in one process lifetime
MaxEvents == 2
\* write attempts that may be awaiting their response at the same time
MaxInFlight == 3

-----------------------------------------------------------------------------
(* JavaScript values *)

NULL == "null"
UNDEFINED == "undefined"
NaN == "n:NaN"

\* parseInt on the values the model uses: leading integer prefix, else NaN
ParseInt(v) ==
    CASE v \in {"n:1", "s:1"} -> "n:1"
      [] v \in {"n:2", "s:2"} -> "n:2"
      [] v \in {"n:3", "s:3", "s:3x"} -> "n:3"
      [] OTHER -> NaN

\* the === of two numbers: NaN equals nothing, itself included
StrictEqNum(a, b) == a # NaN /\ b # NaN /\ a = b

\* String.prototype.trim().toLowerCase() on the string values the model uses
TrimLower(v) ==
    CASE v = "s: Yes " -> "s:yes"
      [] v = "s:TRUE" -> "s:true"
      [] v = "s:On" -> "s:on"
      [] v = "s: 1 " -> "s:1"
      [] v = "s:  " -> "s:"
      [] OTHER -> v

\* typeof value === 'string': every encoded value that is no number, boolean,
\* null or undefined
IsString(v) ==
    v \notin {NULL, UNDEFINED, NaN, "n:0", "n:1", "n:2", "n:3", "b:true", "b:false"}

\* variant: a string is compared as it is, without trim and lower-casing
parseBoolToInt_AsIs(value) ==
    IF value \in {"b:true", "s:true", "n:1", "s:1", "s:on", "s:yes"}
    THEN "n:1" ELSE "n:0"

parseBoolToInt(value) ==
    LET v == IF IsString(value) THEN TrimLower(value) ELSE value
    IN IF v \in {"b:true", "s:true", "n:1", "s:1", "s:on", "s:yes"}
       THEN "n:1" ELSE "n:0"

getSheetColumnsToUpdate ==
    << "schedule_id", "rule_id", "rule_name", "coupon_type",
       "description_en", "description_ar",
       "short_terms_and_conditions_en", "short_terms_and_conditions_ar",
       "url_key", "channel_web", "channel_app",
       "start_date", "end_date", "status" >>

LocalizedFields == {"description_en", "description_ar",
                    "short_terms_and_conditions_en", "short_terms_and_conditions_ar"}

\* a JSON-encoded per-locale map {"ae": ..., "sa": ...}
LocaleJson == "s:{ae:Sale AE,sa:Sale SA}"
\* a JSON-encoded map with the one locale "ae"
LocaleJsonAE == "s:{ae:Only AE}"

\* JSON.parse(value)[key]: UNDEFINED when the text is no JSON object or lacks the key
\* (a parse error is caught at line 413 and leaves the raw value as well)
JsonLookup(value, key) ==
    IF value = LocaleJson /\ key = "ae" THEN "s:Sale AE"
    ELSE IF value = LocaleJson /\ key = "sa" THEN "s:Sale SA"
    ELSE IF value = LocaleJsonAE /\ key = "ae" THEN "s:Only AE"
    ELSE UNDEFINED

\* the body of the forEach callback of prepareDataForUpdate for one key
\* variant: a localized field always becomes the locale entry, present or not
MapValue_NoFallback(key, value, storeCode) ==
    IF key = "status" THEN parseBoolToInt(value)
    ELSE IF key \in LocalizedFields THEN JsonLookup(value, storeCode)
    ELSE value

MapValue(key, value, storeCode) ==
    IF key = "status" THEN parseBoolToInt(value)
    ELSE IF key \in LocalizedFields
         THEN IF storeCode \notin {NULL, UNDEFINED, ""}
                 /\ JsonLookup(value, storeCode) # UNDEFINED
              THEN JsonLookup(value, storeCode)
              ELSE value
         ELSE value

RECURSIVE PushFields(_, _, _, _)
PushFields(elem, keys, storeCode, data) ==
    IF keys = <<>> THEN data
    ELSE LET key == Head(keys)
         IN PushFields(elem, Tail(keys), storeCode,
                IF key \in DOMAIN elem
                THEN Append(data, MapValue(key, elem[key], storeCode))
                ELSE data)

\* elem: the data object without pre_website, post_website and brand, which
\* every event that passes line 102 carries: Object.keys(elem).length > 0
prepareDataForUpdate(elem, storeCode) ==
    PushFields(elem, getSheetColumnsToUpdate, storeCode, <<>>)

-----------------------------------------------------------------------------
(* Static configuration (src/config/*.json is not part of the sources) *)

\* store-code-mapping.json: "sa" maps to a structured descriptor without a
\* worksheet override, "kw" to one with the override worksheet "wsKW", "ae"
\* has no entry
storeCodeMappingJson ==
    [sa |-> [code |-> "sa", sheetId |-> ""],
     kw |-> [code |-> "kw", sheetId |-> "wsKW"]]

\* brand-mapping.json: "hm" maps to a URL key, its site id is looked up remotely
brandMappingJson ==
    [hm |-> [urlKey |-> "hm-key", siteId |-> NULL],
     bbw |-> [urlKey |-> "bbw-key", siteId |-> "siteBBW"]]

Brands == {"hm"}

\* the site the remote service reports for a URL key
RemoteSiteOf(urlKey) == IF urlKey = "hm-key" THEN "siteHM" ELSE NULL


-----------------------------------------------------------------------------
(* The remote tabular store (Graph API), as the engine's requests see it.   *)
(* A workbook: sheets (id, visibility) in listing order, one table that     *)
(* lives on sheet tableSheet, its columns in positional order and its data  *)
(* rows. Indexes on the wire are zero-based. The service rejects a written   *)
(* row whose width is not the table's.                                      *)

SheetIds(wb) == {wb.sheets[i].id : i \in 1..Len(wb.sheets)}

\* GET .../workbook/worksheets/{ws}/tables
TablesOnSheet(wb, ws) == IF ws = wb.tableSheet THEN <<wb.tableId>> ELSE <<>>

\* the table addressed by .../worksheets/{ws}/tables/{t} exists
TableAddressed(fs, f, ws, t) ==
    f \in DOMAIN fs /\ ws = fs[f].tableSheet /\ t = fs[f].tableId

\* GET .../columns?$select=index,name
ColumnsListing(wb) ==
    [i \in 1..Len(wb.columns) |-> [name |-> wb.columns[i], index |-> i - 1]]

\* GET .../columns/itemAt(index=c)?$select=values : header cell, then one cell per row
ColumnValues(wb, c) ==
    <<wb.columns[c + 1]>> \o [i \in 1..Len(wb.rows) |-> wb.rows[i][c + 1]]

\* the 2xx status the service answers a write with: the one the engine
\* compares with (201 for an append, 200 for an update or a removal), or
\* another 2xx
ExpectedStatus == "expected"
WriteStatuses == {ExpectedStatus, "other 2xx"}

-----------------------------------------------------------------------------
(* The engine. Every function takes the state s (module-level variables,    *)
(* remote store, request log) and yields [st, ok, val, err]: the state      *)
(* after the call, whether it returned (ok) or threw (err), and its value.  *)
(* Bind(r, K) is "await r, then K": a throw of r propagates.                *)

Ok(s, v) == [st |-> s, ok |-> TRUE, val |-> v, err |-> ""]
Throw(s, e) == [st |-> s, ok |-> FALSE, val |-> NULL, err |-> e]
Bind(r, K(_)) == IF r.ok THEN K(r) ELSE r

\* a request: verb, resource kind, workbook, worksheet id and table id of the
\* URL ("" where the URL has none), positional index (-1: none), posted row
Req(verb, res, f, ws, t, idx, body) ==
    [verb |-> verb, res |-> res, file |-> f, ws |-> ws, t |-> t,
     idx |-> idx, body |-> body]
Issue(s, r) == [s EXCEPT !.reqs = Append(@, r)]

ErrTokenUnset == "Access token is not set yet"
ErrPathUnset == "File path is not set yet"
ErrBrandUnset == "Brand is not set in the params"
ErrSiteId == "Site id not found in the response"
ErrNoWorksheet == "No worksheet found in the excel sheet or api call failed"
ErrNoTable == "No table found in the excel sheet or api call failed"
ErrNoColumns == "No columns found in the excel sheet or api call failed"
ErrColumn == "Column not found in the excel sheet"
ErrMismatch == "Number of columns mismatched in post data"
ErrNoEntry == "Invalid schedule id provided no entries found"
ErrTypeError == "TypeError"
ErrRequestFailed == "Request failed"

Falsy(v) == v \in {NULL, UNDEFINED, ""}

setFilePathToRead(s, filePath) == [s EXCEPT !.loadedFilePath = filePath]

setAccessToken(s, accessToken) == [s EXCEPT !.loadedAccessToken = accessToken]

\* variant: the token is handed out without the check
getAccessToken_Unchecked(s) == Ok(s, s.loadedAccessToken)

getAccessToken(s) ==
    IF Falsy(s.loadedAccessToken) THEN Throw(s, ErrTokenUnset)
    ELSE Ok(s, s.loadedAccessToken)

getFilePathToRead(s) ==
    IF Falsy(s.loadedFilePath) THEN Throw(s, ErrPathUnset)
    ELSE Ok(s, s.loadedFilePath)

\* returns the directory (the store code after mapping)
getDirectoryPath(s, storeCode) ==
    IF storeCode \in DOMAIN storeCodeMappingJson
    THEN Ok([s EXCEPT !.loadedStore = storeCodeMappingJson[storeCode],
                      !.loadedStoreCode = storeCodeMappingJson[storeCode].code],
            storeCodeMappingJson[storeCode].code)
    ELSE Ok([s EXCEPT !.loadedStoreCode = storeCode], storeCode)

\* brandPath.urlKey || brandPath, and brandPath.siteId || null
UrlKeyOf(brand) ==
    IF brand \in DOMAIN brandMappingJson THEN brandMappingJson[brand].urlKey ELSE brand
BrandSiteIdOf(brand) ==
    IF brand \in DOMAIN brandMappingJson THEN brandMappingJson[brand].siteId ELSE NULL

\* lines 109-116: the response of the site lookup
SiteResponse(s1, siteId) ==
    IF Falsy(siteId) THEN Throw(s1, ErrSiteId)
    ELSE Ok([s1 EXCEPT !.loadedSiteId = siteId], siteId)

\* params.brand is UNDEFINED when the event carries no brand
getSiteId(s, brand) ==
    IF ~Falsy(s.loadedSiteId) THEN Ok(s, s.loadedSiteId)
    ELSE IF Falsy(brand) THEN Throw(s, ErrBrandUnset)
    ELSE IF ~Falsy(BrandSiteIdOf(brand))
    THEN Ok([s EXCEPT !.loadedSiteId = BrandSiteIdOf(brand)], BrandSiteIdOf(brand))
    ELSE Bind(getAccessToken(s), LAMBDA tk :
            SiteResponse(Issue(s, Req("GET", "site", UrlKeyOf(brand), "", "", -1, <<>>)),
                         RemoteSiteOf(UrlKeyOf(brand))))

\* filePath is the key "site/directory" of the workbook; the item id the
\* service returns for it stands for the same workbook
getFileIdFromSharePoint(s, filePath) ==
    Bind(getAccessToken(s), LAMBDA tk :
        IF filePath \in DOMAIN s.files
        THEN Ok(Issue(s, Req("GET", "file", filePath, "", "", -1, <<>>)), filePath)
        ELSE Throw(Issue(s, Req("GET", "file", filePath, "", "", -1, <<>>)), ErrRequestFailed))

getFileItemId(s, siteCode, filePathPrefix) ==
    Bind(getDirectoryPath(s, siteCode), LAMBDA dir :
        getFileIdFromSharePoint(dir.st, filePathPrefix \o "/" \o dir.val))

\* lines 181-183: filter to the visible worksheets, take the first
FirstVisible(s1, visible) ==
    IF Len(visible) = 0 THEN Throw(s1, ErrTypeError)
    ELSE Ok([s1 EXCEPT !.loadedWorkSheetId = visible[1].id], visible[1].id)

\* variant: the id of the first listed worksheet is stored before the
\* listing is filtered
WorksheetsResponse_StoresFirst(s1, f) ==
    IF f \notin DOMAIN s1.files THEN Throw(s1, ErrRequestFailed)
    ELSE IF Len(s1.files[f].sheets) = 0 THEN Throw(s1, ErrNoWorksheet)
    ELSE FirstVisible([s1 EXCEPT !.loadedWorkSheetId = s1.files[f].sheets[1].id],
                      SelectSeq(s1.files[f].sheets,
                                LAMBDA w : w.visibility = "Visible"))

\* lines 176-183: the response of the worksheet listing
WorksheetsResponse(s1, f) ==
    IF f \notin DOMAIN s1.files THEN Throw(s1, ErrRequestFailed)
    ELSE IF Len(s1.files[f].sheets) = 0 THEN Throw(s1, ErrNoWorksheet)
    ELSE FirstVisible(s1, SelectSeq(s1.files[f].sheets,
                                    LAMBDA w : w.visibility = "Visible"))

\* variant: the worksheets are listed again although an id is memoized
getFirstActiveWorksheetId_NoMemo(s) ==
    IF s.loadedStore.sheetId # UNDEFINED /\ s.loadedStore.sheetId # ""
    THEN Ok([s EXCEPT !.loadedWorkSheetId = s.loadedStore.sheetId], s.loadedStore.sheetId)
    ELSE Bind(getAccessToken(s), LAMBDA tk :
         Bind(getFilePathToRead(s), LAMBDA fp :
            WorksheetsResponse(
                Issue(s, Req("GET", "worksheets", fp.val, "", "", -1, <<>>)), fp.val)))

getFirstActiveWorksheetId(s) ==
    IF ~Falsy(s.loadedWorkSheetId) THEN Ok(s, s.loadedWorkSheetId)
    ELSE IF s.loadedStore.sheetId # UNDEFINED /\ s.loadedStore.sheetId # ""
    THEN Ok([s EXCEPT !.loadedWorkSheetId = s.loadedStore.sheetId], s.loadedStore.sheetId)
    ELSE Bind(getAccessToken(s), LAMBDA tk :
         Bind(getFilePathToRead(s), LAMBDA fp :
            WorksheetsResponse(
                Issue(s, Req("GET", "worksheets", fp.val, "", "", -1, <<>>)), fp.val)))

\* lines 203-209: the response of the table listing of worksheet ws
TablesResponse(s1, f, ws) ==
    IF f \notin DOMAIN s1.files \/ ws \notin SheetIds(s1.files[f])
    THEN Throw(s1, ErrRequestFailed)
    ELSE IF Len(TablesOnSheet(s1.files[f], ws)) = 0 THEN Throw(s1, ErrNoTable)
    ELSE Ok([s1 EXCEPT !.loadedTableId = TablesOnSheet(s1.files[f], ws)[1]],
            TablesOnSheet(s1.files[f], ws)[1])

getFirstTable(s) ==
    IF ~Falsy(s.loadedTableId) THEN Ok(s, s.loadedTableId)
    ELSE Bind(getFirstActiveWorksheetId(s), LAMBDA ws :
         Bind(getAccessToken(ws.st), LAMBDA tk :
         Bind(getFilePathToRead(ws.st), LAMBDA fp :
            TablesResponse(
                Issue(ws.st, Req("GET", "tables", fp.val, ws.val, "", -1, <<>>)),
                fp.val, ws.val))))

\* loadedHeaderRow is an object: its .length is its "length" entry, if any
HeaderLength(h) == IF "length" \in DOMAIN h THEN h["length"] ELSE 0

NamedColumns(columns) == {i \in 1..Len(columns) : columns[i].name # ""}

\* the forEach of lines 235-238: named columns are written into the same object
MergeHeader(h, columns) ==
    [n \in (DOMAIN h) \cup {columns[i].name : i \in NamedColumns(columns)} |->
        IF \E i \in NamedColumns(columns) : columns[i].name = n
        THEN columns[CHOOSE i \in NamedColumns(columns) :
                        /\ columns[i].name = n
                        /\ \A j \in NamedColumns(columns) :
                                columns[j].name = n => j <= i].index
        ELSE h[n]]

\* lines 230-239: the response of the column listing
ColumnsResponse(s1, f, ws, t) ==
    IF ~TableAddressed(s1.files, f, ws, t) THEN Throw(s1, ErrRequestFailed)
    ELSE IF Len(ColumnsListing(s1.files[f])) = 0 THEN Throw(s1, ErrNoColumns)
    ELSE Ok([s1 EXCEPT !.loadedHeaderRow =
                    MergeHeader(s1.loadedHeaderRow, ColumnsListing(s1.files[f]))],
            MergeHeader(s1.loadedHeaderRow, ColumnsListing(s1.files[f])))

getHeaderRow(s) ==
    IF HeaderLength(s.loadedHeaderRow) > 0 THEN Ok(s, s.loadedHeaderRow)
    ELSE Bind(getFirstTable(s), LAMBDA t :
         Bind(getFirstActiveWorksheetId(t.st), LAMBDA ws :
         Bind(getAccessToken(ws.st), LAMBDA tk :
         Bind(getFilePathToRead(ws.st), LAMBDA fp :
            ColumnsResponse(
                Issue(ws.st, Req("GET", "columns", fp.val, ws.val, t.val, -1, <<>>)),
                fp.val, ws.val, t.val)))))

\* loadedHeaderRow[headerName] || -1
HeaderOrMinusOne(h, headerName) ==
    IF headerName \in DOMAIN h /\ h[headerName] # 0 THEN h[headerName] ELSE -1

findColumnIndexByHeader(s, headerName) ==
    Bind(getHeaderRow(s), LAMBDA h : Ok(h.st, HeaderOrMinusOne(h.val, headerName)))

FirstOf(hits) == CHOOSE i \in hits : \A j \in hits : i <= j

\* variant: the cells are compared as they are, without parseInt
FindIndex_Raw(colValues, valueToMatch) ==
    IF \A i \in 1..Len(colValues) : colValues[i] # valueToMatch
    THEN -1
    ELSE FirstOf({i \in 1..Len(colValues) : colValues[i] = valueToMatch}) - 1

\* colValues.findIndex(...): zero-based position of the first match, or -1
FindIndex(colValues, valueToMatch) ==
    IF \A i \in 1..Len(colValues) :
            ~StrictEqNum(ParseInt(colValues[i]), ParseInt(valueToMatch))
    THEN -1
    ELSE FirstOf({i \in 1..Len(colValues) :
                    StrictEqNum(ParseInt(colValues[i]), ParseInt(valueToMatch))}) - 1

\* variant: the header cell is not removed before the search
ColumnResponse_KeepHeader(s1, f, ws, t, known, columnIndex, valueToMatch) ==
    IF ~known \/ ~TableAddressed(s1.files, f, ws, t)
       \/ columnIndex < 0 \/ columnIndex >= Len(s1.files[f].columns)
    THEN Throw(s1, ErrRequestFailed)
    ELSE Ok(s1, FindIndex(ColumnValues(s1.files[f], columnIndex), valueToMatch))

\* lines 276-280: the response of the column read; the service rejects an
\* undefined or out-of-range index (known: colName is a key of the header map)
ColumnResponse(s1, f, ws, t, known, columnIndex, valueToMatch) ==
    IF ~known \/ ~TableAddressed(s1.files, f, ws, t)
       \/ columnIndex < 0 \/ columnIndex >= Len(s1.files[f].columns)
    THEN Throw(s1, ErrRequestFailed)
    ELSE Ok(s1, FindIndex(Tail(ColumnValues(s1.files[f], columnIndex)), valueToMatch))

\* lines 265-275, with the header map h in hand
ColumnRead(s, h, colName, ws, t, valueToMatch) ==
    IF colName \in DOMAIN h /\ h[colName] = -1 THEN Throw(s, ErrColumn)
    ELSE Bind(getFilePathToRead(s), LAMBDA fp :
         Bind(getAccessToken(s), LAMBDA tk :
            ColumnResponse(
                Issue(s, Req("GET", "column", fp.val, ws, t,
                             IF colName \in DOMAIN h THEN h[colName] ELSE -1, <<>>)),
                fp.val, ws, t, colName \in DOMAIN h,
                IF colName \in DOMAIN h THEN h[colName] ELSE -1, valueToMatch)))

findRowIndexByID(s, colName, valueToMatch) ==
    Bind(getFirstTable(s), LAMBDA t :
    Bind(getFirstActiveWorksheetId(t.st), LAMBDA ws :
    Bind(getHeaderRow(ws.st), LAMBDA h :
        ColumnRead(h.st, h.val, colName, ws.val, t.val, valueToMatch))))

\* line 301: the response of the row read
RowResponse(s1, f, ws, t, rowIndex) ==
    IF ~TableAddressed(s1.files, f, ws, t) \/ rowIndex >= Len(s1.files[f].rows)
    THEN Throw(s1, ErrRequestFailed)
    ELSE Ok(s1, [isNull |-> FALSE, values |-> s1.files[f].rows[rowIndex + 1]])

\* the value is [isNull, values]: null for rowIndex < 1, else the row's cells
getRowDataByIndex(s, rowIndex) ==
    IF rowIndex < 1 THEN Ok(s, [isNull |-> TRUE, values |-> <<>>])
    ELSE Bind(getFirstTable(s), LAMBDA t :
         Bind(getFirstActiveWorksheetId(t.st), LAMBDA ws :
         Bind(getFilePathToRead(ws.st), LAMBDA fp :
         Bind(getAccessToken(ws.st), LAMBDA tk :
            RowResponse(
                Issue(ws.st, Req("GET", "row", fp.val, ws.val, t.val, rowIndex, <<>>)),
                fp.val, ws.val, t.val, rowIndex)))))

\* the default argument rowIndex = null of saveRowData
NullIndex == -100

\* lines 374-377: append, and the service's answer (a 2xx and the row stored);
\* the value is response.status === 201
PostRow(s1, f, ws, t, postData) ==
    IF ~TableAddressed(s1.files, f, ws, t) \/ Len(postData) # Len(s1.files[f].columns)
    THEN Throw(s1, ErrRequestFailed)
    ELSE Ok([s1 EXCEPT !.files[f].rows = Append(@, postData)],
            s1.status = ExpectedStatus)

\* lines 379-383 and 484-488: positional update, and the service's answer
\* (a 2xx and the row replaced); the value is response.status === 200
PatchRow(s1, f, ws, t, rowIndex, rowValues) ==
    IF ~TableAddressed(s1.files, f, ws, t) \/ Len(rowValues) # Len(s1.files[f].columns)
       \/ rowIndex < 0 \/ rowIndex >= Len(s1.files[f].rows)
    THEN Throw(s1, ErrRequestFailed)
    ELSE Ok([s1 EXCEPT !.files[f].rows[rowIndex + 1] = rowValues],
            s1.status = ExpectedStatus)

\* variant: no comparison of the vector's length with the recognized fields
WriteRow_Unchecked(s, ws, t, postData, rowIndex) ==
    Bind(getFilePathToRead(s), LAMBDA fp :
        IF rowIndex = NullIndex
        THEN PostRow(Issue(s, Req("POST", "rows", fp.val, ws, t, -1, postData)),
                     fp.val, ws, t, postData)
        ELSE PatchRow(Issue(s, Req("PATCH", "row", fp.val, ws, t, rowIndex, postData)),
                      fp.val, ws, t, rowIndex, postData))

\* lines 367-385, with worksheet id, table id and the mapped vector in hand
WriteRow(s, ws, t, postData, rowIndex) ==
    IF Len(getSheetColumnsToUpdate) # Len(postData) THEN Throw(s, ErrMismatch)
    ELSE Bind(getFilePathToRead(s), LAMBDA fp :
            IF rowIndex = NullIndex
            THEN PostRow(Issue(s, Req("POST", "rows", fp.val, ws, t, -1, postData)),
                         fp.val, ws, t, postData)
            ELSE PatchRow(Issue(s, Req("PATCH", "row", fp.val, ws, t, rowIndex, postData)),
                          fp.val, ws, t, rowIndex, postData))

saveRowData(s, jsonData, rowIndex) ==
    Bind(getFirstActiveWorksheetId(s), LAMBDA ws :
    Bind(getFirstTable(ws.st), LAMBDA t :
    Bind(getAccessToken(t.st), LAMBDA tk :
        WriteRow(t.st, ws.val, t.val,
                 prepareDataForUpdate(jsonData, t.st.loadedStoreCode), rowIndex))))

ScheduleIdOf(jsonData) ==
    IF "schedule_id" \in DOMAIN jsonData THEN jsonData["schedule_id"] ELSE UNDEFINED

\* variant: the record is appended without a row lookup
createOrUpdateRows_BlindAppend(s, jsonData) == saveRowData(s, jsonData, NullIndex)

\* variant: the "not found" index -1 is taken for a row
createOrUpdateRows_AlwaysUpdate(s, jsonData) ==
    Bind(findRowIndexByID(s, "schedule_id", ParseInt(ScheduleIdOf(jsonData))),
         LAMBDA rowId :
            IF rowId.val >= -1
            THEN saveRowData(rowId.st, jsonData, rowId.val)
            ELSE saveRowData(rowId.st, jsonData, NullIndex))

\* variant: row index 0 is taken for "not found"
createOrUpdateRows_SkipFirstRow(s, jsonData) ==
    Bind(findRowIndexByID(s, "schedule_id", ParseInt(ScheduleIdOf(jsonData))),
         LAMBDA rowId :
            IF rowId.val > 0
            THEN saveRowData(rowId.st, jsonData, rowId.val)
            ELSE saveRowData(rowId.st, jsonData, NullIndex))

createOrUpdateRows(s, jsonData) ==
    Bind(findRowIndexByID(s, "schedule_id", ParseInt(ScheduleIdOf(jsonData))),
         LAMBDA rowId :
            IF rowId.val >= 0
            THEN saveRowData(rowId.st, jsonData, rowId.val)
            ELSE saveRowData(rowId.st, jsonData, NullIndex))

\* rowValues[i] = 0 on an array: index -1 adds a property the request body does
\* not carry, the elements stay as they are
SetCell(rowValues, i) ==
    IF i >= 0 /\ i < Len(rowValues) THEN [rowValues EXCEPT ![i + 1] = "n:0"]
    ELSE rowValues

\* lines 483-488, with the row, the ids and the status index in hand
WriteBack(s, rv, ws, t, statusIndex, rowId) ==
    IF rv.isNull THEN Throw(s, ErrTypeError)
    ELSE Bind(getFilePathToRead(s), LAMBDA fp :
            PatchRow(Issue(s, Req("PATCH", "row", fp.val, ws, t, rowId,
                                  SetCell(rv.values, statusIndex))),
                     fp.val, ws, t, rowId, SetCell(rv.values, statusIndex)))

\* variant: no check of the looked-up index
deactivateRow_NoCheck(s, scheduleId) ==
    Bind(findRowIndexByID(s, "schedule_id", ParseInt(scheduleId)), LAMBDA rowId :
        Bind(getRowDataByIndex(rowId.st, rowId.val), LAMBDA rv :
        Bind(getFirstActiveWorksheetId(rv.st), LAMBDA ws :
        Bind(getFirstTable(ws.st), LAMBDA t :
        Bind(getAccessToken(t.st), LAMBDA tk :
        Bind(findColumnIndexByHeader(t.st, "status"), LAMBDA ci :
            WriteBack(ci.st, rv.val, ws.val, t.val, ci.val, rowId.val)))))))

deactivateRow(s, scheduleId) ==
    Bind(findRowIndexByID(s, "schedule_id", ParseInt(scheduleId)), LAMBDA rowId :
        IF rowId.val < 0 THEN Throw(rowId.st, ErrNoEntry)
        ELSE Bind(getRowDataByIndex(rowId.st, rowId.val), LAMBDA rv :
             Bind(getFirstActiveWorksheetId(rv.st), LAMBDA ws :
             Bind(getFirstTable(ws.st), LAMBDA t :
             Bind(getAccessToken(t.st), LAMBDA tk :
             Bind(findColumnIndexByHeader(t.st, "status"), LAMBDA ci :
                WriteBack(ci.st, rv.val, ws.val, t.val, ci.val, rowId.val)))))))

RemoveAt(rows, i) == SubSeq(rows, 1, i - 1) \o SubSeq(rows, i + 1, Len(rows))

\* lines 458-461: DELETE .../rows/{rowId}, and the service's answer: it
\* rejects an index that addresses no row, else removes the row
DeleteResponse(s1, f, ws, t, rowId) ==
    IF ~TableAddressed(s1.files, f, ws, t)
       \/ rowId < 0 \/ rowId >= Len(s1.files[f].rows)
    THEN Throw(s1, ErrRequestFailed)
    ELSE Ok([s1 EXCEPT !.files[f].rows = RemoveAt(@, rowId + 1)],
            s1.status = ExpectedStatus)

deleteRow(s, scheduleId) ==
    Bind(getAccessToken(s), LAMBDA tk :
    Bind(getFirstActiveWorksheetId(s), LAMBDA ws :
    Bind(getFirstTable(ws.st), LAMBDA t :
    Bind(findRowIndexByID(t.st, "schedule_id", ParseInt(scheduleId)), LAMBDA rowId :
    Bind(getFilePathToRead(rowId.st), LAMBDA fp :
        DeleteResponse(
            Issue(rowId.st, Req("DELETE", "row", fp.val, ws.val, t.val, rowId.val, <<>>)),
            fp.val, ws.val, t.val, rowId.val))))))

-----------------------------------------------------------------------------
(* Events and initial tables *)

FieldSet == {getSheetColumnsToUpdate[i] : i \in 1..Len(getSheetColumnsToUpdate)}

\* a record with all recognized fields; every field has a value of its own
FullRec(id, st, desc) ==
    [f \in FieldSet |->
        CASE f = "schedule_id" -> id
          [] f = "status" -> st
          [] f = "description_en" -> desc
          [] f = "rule_id" -> "s:rule_id"
          [] f = "rule_name" -> "s:rule_name"
          [] f = "coupon_type" -> "s:coupon_type"
          [] f = "description_ar" -> "s:description_ar"
          [] f = "short_terms_and_conditions_en" -> LocaleJson
          [] f = "short_terms_and_conditions_ar" -> "s:terms_ar"
          [] f = "url_key" -> "s:url_key"
          [] f = "channel_web" -> "n:1"
          [] f = "channel_app" -> "n:0"
          [] f = "start_date" -> "s:2024-01-01"
          [] OTHER -> "s:2024-12-31"]

Restrict(rec, S) == [f \in S |-> rec[f]]

FullRecords ==
    { FullRec("n:1", "s:no", LocaleJson),
      FullRec("s:2", "s: Yes ", LocaleJson),
      FullRec("n:3", "b:true", LocaleJson),
      FullRec("s:3x", "s:no", "s:plain"),
      FullRec("s:abc", "b:true", "s:plain") }

PartialRecords ==
    { Restrict(FullRec("n:1", "b:true", "s:plain"), FieldSet \ {"status"}),
      Restrict(FullRec("s:2", "b:true", "s:plain"), {"schedule_id"}),
      Restrict(FullRec("s:2", "b:true", "s:plain"), FieldSet \ {"schedule_id"}) }

\* pre_website / post_website after split(','): "" splits into one empty segment
WebsiteLists == { <<"">>, <<"ae">>, <<"sa">>, <<"ae", "sa">> }

Events ==
    [rec : FullRecords \cup PartialRecords, pre_website : WebsiteLists, post_website : WebsiteLists,
     brand : Brands]


\* the row a table with the given column order holds for a record
RowFor(columns, rec, storeCode) ==
    [i \in 1..Len(columns) |-> MapValue(columns[i], rec[columns[i]], storeCode)]

Workbook(sheetId, tableId, columns, rows) ==
    [sheets |-> <<[id |-> sheetId, visibility |-> "Visible"]>>,
     tableSheet |-> sheetId, tableId |-> tableId,
     columns |-> columns, rows |-> rows]

FileAE == "siteHM/ae"
FileSA == "siteHM/sa"

InitialFiles(layoutAE, layoutSA, sameIds) ==
    (FileAE :> Workbook("ws1", "t1", layoutAE,
                << RowFor(layoutAE, FullRec("n:1", "b:true", "s:plain"), "ae"),
                   RowFor(layoutAE, FullRec("s:2", "b:true", "s:plain"), "ae") >>))
    @@
    (FileSA :> Workbook(IF sameIds THEN "ws1" ELSE "ws2",
                        IF sameIds THEN "t1" ELSE "t2", layoutSA,
                << RowFor(layoutSA, FullRec("n:3", "b:true", "s:plain"), "sa") >>))

-----------------------------------------------------------------------------
(* State plumbing *)

Cur ==
    [loadedSiteId |-> loadedSiteId, loadedStoreCode |-> loadedStoreCode,
     loadedHeaderRow |-> loadedHeaderRow, loadedStore |-> loadedStore,
     loadedWorkSheetId |-> loadedWorkSheetId, loadedTableId |-> loadedTableId,
     loadedAccessToken |-> loadedAccessToken, loadedFilePath |-> loadedFilePath,
     files |-> files, reqs |-> reqs, status |-> ExpectedStatus]

\* the engine state a call starts from: no request issued yet, and the 2xx
\* status the service will answer a write with
Fresh(status) == [Cur EXCEPT !.reqs = <<>>, !.status = status]

Commit(s) ==
    /\ loadedSiteId' = s.loadedSiteId
    /\ loadedStoreCode' = s.loadedStoreCode
    /\ loadedHeaderRow' = s.loadedHeaderRow
    /\ loadedStore' = s.loadedStore
    /\ loadedWorkSheetId' = s.loadedWorkSheetId
    /\ loadedTableId' = s.loadedTableId
    /\ loadedAccessToken' = s.loadedAccessToken
    /\ loadedFilePath' = s.loadedFilePath
    /\ files' = s.files
    /\ reqs' = s.reqs

\* the locals of main when no invocation is running
NoEvent == [rec |-> <<>>, filePathPrefix |-> "", removed |-> <<>>, added |-> <<>>]

NoApi == [fn |-> "none", arg |-> <<>>, ok |-> FALSE, val |-> NULL, err |-> "",
          site |-> ""]

NoCall ==
    [op |-> "none", site |-> "", file |-> "", rec |-> <<>>, rowId |-> -2,
     ok |-> FALSE, val |-> FALSE, err |-> "", first |-> 0, repeat |-> FALSE, prevRowId |-> -2]

EngineStart(layoutAE, sameIds) ==
    /\ loadedSiteId = NULL
    /\ loadedStoreCode = NULL
    /\ loadedHeaderRow = <<>>
    /\ loadedStore = [code |-> UNDEFINED, sheetId |-> UNDEFINED]
    /\ loadedWorkSheetId = NULL
    /\ loadedTableId = NULL
    /\ loadedAccessToken = NULL
    /\ loadedFilePath = NULL
    /\ files = InitialFiles(layoutAE, getSheetColumnsToUpdate, sameIds)
    /\ reqs = <<>>
    /\ call = NoCall
    /\ pc = "idle"
    /\ event = NoEvent
    /\ removeFromWebsites = <<>>
    /\ newwebsiteCodes = <<>>
    /\ response = [ok |-> TRUE, message |-> ""]
    /\ nEvents = 0
    /\ trace = <<>>

ApiQuiet == api = NoApi

\* no upload of the first version yet; the remote file holds content 0
NoUpload ==
    [pc |-> "idle", n |-> 0, resource |-> {0}, dels |-> {}, deleted |-> {},
     rewrote |-> {}]

RetryQuiet ==
    /\ count = 0
    /\ retryInterval = "unset"
    /\ inFlight = {}
    /\ issued = 0
    /\ lockedFor = 0
    /\ afterLock = "ok"
    /\ uploadReturned = FALSE
    /\ direct = NoUpload

-----------------------------------------------------------------------------
(* The update handler: main of src/unnamed/part_002, lines 90-134 *)

\* split(',').filter(i => i): the non-empty segments
NonEmpty(segments) == SelectSeq(segments, LAMBDA c : c # "")

actionSuccessResponse(message) == [ok |-> TRUE, message |-> message]
actionErrorResponse(message) == [ok |-> FALSE, message |-> message]

\* lines 98-101: validateData(dataObject).success; the validator is not part
\* of the sources, it may accept or reject any data object (validationResult).
\* getEntraAccessToken may hand back a token, or a response without one.

\* variant: every old site code is removed, also one the event keeps
RemoveList_AllOld(ev) == NonEmpty(ev.pre_website)

\* oldwebsiteCodes.filter(x => !newwebsiteCodes.includes(x))
RemoveList(ev) ==
    SelectSeq(NonEmpty(ev.pre_website),
              LAMBDA x : \A i \in 1..Len(NonEmpty(ev.post_website)) :
                            NonEmpty(ev.post_website)[i] # x)

\* lines 108-112, with the result of getSiteId in hand
BeginOutcome(ev, site) ==
    /\ Commit(site.st)
    /\ IF site.ok
       THEN /\ pc' = "loop"
            /\ event' = [rec |-> ev.rec, filePathPrefix |-> site.val,
                          removed |-> RemoveList(ev),
                          added |-> NonEmpty(ev.post_website)]
            /\ removeFromWebsites' = RemoveList(ev)
            /\ newwebsiteCodes' = NonEmpty(ev.post_website)
            /\ response' = response
            /\ trace' = <<>>
       ELSE /\ response' = actionErrorResponse(site.err)
            /\ UNCHANGED <<pc, event, removeFromWebsites, newwebsiteCodes, trace>>

\* lines 97-112: parse the event, acquire the credential, resolve the site
UpdateMain_Begin(ev) ==
    /\ pc = "idle"
    /\ nEvents < MaxEvents
    /\ \A f \in DOMAIN files : Len(files[f].rows) < MaxRows
    /\ nEvents' = nEvents + 1
    /\ call' = call
    /\ \E validationResult \in BOOLEAN :
        IF ~validationResult
        THEN /\ response' = actionErrorResponse("validation failed")
             /\ Commit([Cur EXCEPT !.reqs = <<>>])
             /\ UNCHANGED <<pc, event, removeFromWebsites, newwebsiteCodes, trace>>
        ELSE IF Len(RemoveList(ev)) = 0 /\ Len(NonEmpty(ev.post_website)) = 0
        THEN /\ response' = actionSuccessResponse("No changes to update")
             /\ Commit([Cur EXCEPT !.reqs = <<>>])
             /\ UNCHANGED <<pc, event, removeFromWebsites, newwebsiteCodes, trace>>
        ELSE \E accessToken \in {"token", UNDEFINED} :
                BeginOutcome(ev,
                    getSiteId(setAccessToken([Cur EXCEPT !.reqs = <<>>], accessToken),
                              ev.brand))

\* the salesRule object of a delete event: the rule's id, the comma-separated
\* websites and the brand
DeleteEvents ==
    [schedule_id : {"n:1", "n:3"}, website : WebsiteLists, brand : Brands]

\* the delete handler's loop (delete/index.js lines 62-66) is the deactivation
\* loop over all of the event's websites, with the schedule_id alone
AsRemoval(ev) ==
    [rec |-> [schedule_id |-> ev.schedule_id], pre_website |-> ev.website,
     post_website |-> <<"">>, brand |-> ev.brand]

\* delete/index.js lines 41-60: check the event (required inputs and
\* validator, neither part of the sources: they may accept or reject),
\* acquire the credential, resolve the site
DeleteMain_Begin(ev) ==
    /\ pc = "idle"
    /\ nEvents < MaxEvents
    /\ nEvents' = nEvents + 1
    /\ call' = call
    /\ \E validationResult \in BOOLEAN :
        IF ~validationResult
        THEN /\ response' = actionErrorResponse("validation failed")
             /\ Commit([Cur EXCEPT !.reqs = <<>>])
             /\ UNCHANGED <<pc, event, removeFromWebsites, newwebsiteCodes, trace>>
        ELSE IF Len(NonEmpty(ev.website)) = 0
        THEN /\ response' = actionSuccessResponse("No changes to update")
             /\ Commit([Cur EXCEPT !.reqs = <<>>])
             /\ UNCHANGED <<pc, event, removeFromWebsites, newwebsiteCodes, trace>>
        ELSE \E accessToken \in {"token", UNDEFINED} :
                BeginOutcome(AsRemoval(ev),
                    getSiteId(setAccessToken([Cur EXCEPT !.reqs = <<>>], accessToken),
                              ev.brand))

\* the outcome of one loop iteration: the engine call's result r (or the
\* failed file lookup), the row index its lookup found (-2: it did not return)
\* and the position in reqs of the engine call's first request
\* (repeat: the engine call before this one was the same call, on the same
\* workbook with the same record, and returned; prevRowId: what it looked up)
StepResult(op, siteCode, rec, fid, r, rowId) ==
    [st |-> r.st, ok |-> r.ok, err |-> r.err, kind |-> op,
     call |-> [op |-> IF fid.ok THEN op ELSE "none", site |-> siteCode,
               file |-> fid.val, rec |-> rec,
               rowId |-> IF fid.ok /\ rowId.ok THEN rowId.val ELSE -2,
               ok |-> r.ok, val |-> r.ok /\ r.val, err |-> r.err,
               first |-> Len(fid.st.reqs) + 1,
               repeat |-> fid.ok /\ call.op = op /\ call.ok
                            /\ call.file = fid.val /\ call.rec = rec,
               prevRowId |-> call.rowId]]

\* lines 116-118
DeactivateStep(s, siteCode, rec, filePathPrefix, fid) ==
    StepResult("deactivateRow", siteCode, rec, fid,
        Bind(fid, LAMBDA x :
            deactivateRow(setFilePathToRead(fid.st, fid.val), ScheduleIdOf(rec))),
        Bind(fid, LAMBDA x :
            findRowIndexByID(setFilePathToRead(fid.st, fid.val), "schedule_id",
                             ParseInt(ScheduleIdOf(rec)))))

\* lines 123-125
UpsertStep(s, siteCode, rec, filePathPrefix, fid) ==
    StepResult("createOrUpdateRows", siteCode, rec, fid,
        Bind(fid, LAMBDA x :
            createOrUpdateRows(setFilePathToRead(fid.st, fid.val), rec)),
        Bind(fid, LAMBDA x :
            findRowIndexByID(setFilePathToRead(fid.st, fid.val), "schedule_id",
                             ParseInt(ScheduleIdOf(rec)))))

\* variant: a call that threw is logged and the loop goes on with the next
\* site code
StepOutcome_GoOn(r, remove, new) ==
    /\ Commit(r.st)
    /\ call' = r.call
    /\ trace' = Append(trace, [kind |-> r.kind, site |-> r.call.site,
                               file |-> r.call.file, ok |-> r.ok,
                               val |-> r.call.val])
    /\ removeFromWebsites' = remove
    /\ newwebsiteCodes' = new
    /\ UNCHANGED <<pc, event, response, nEvents>>

\* the loop goes on after a call that returned; a throw leaves the loops for
\* the catch block of line 130
StepOutcome(r, remove, new) ==
    /\ Commit(r.st)
    /\ call' = r.call
    /\ trace' = Append(trace, [kind |-> r.kind, site |-> r.call.site,
                               file |-> r.call.file, ok |-> r.ok,
                               val |-> r.call.val])
    /\ IF r.ok
       THEN /\ removeFromWebsites' = remove
            /\ newwebsiteCodes' = new
            /\ UNCHANGED <<pc, event, response, nEvents>>
       ELSE /\ pc' = "catch"
            /\ UNCHANGED <<removeFromWebsites, newwebsiteCodes, event, response,
                           nEvents>>

\* one iteration of the loop of lines 115-119 (and of delete/index.js 62-66),
\* the service answering a write with the given 2xx status
DeactivateIteration(status) ==
    /\ pc = "loop"
    /\ removeFromWebsites # <<>>
    /\ StepOutcome(
          DeactivateStep(Cur, Head(removeFromWebsites), event.rec, event.filePathPrefix,
              getFileItemId(Fresh(status), Head(removeFromWebsites),
                            event.filePathPrefix)),
          Tail(removeFromWebsites), newwebsiteCodes)

\* the service answers as documented: 200 for an update
UpdateMain_Deactivate == DeactivateIteration(ExpectedStatus)

\* variant: the upsert loop does not wait for the deactivation loop
UpdateMain_Upsert_Early ==
    /\ pc = "loop"
    /\ newwebsiteCodes # <<>>
    /\ StepOutcome(
          UpsertStep(Cur, Head(newwebsiteCodes), event.rec, event.filePathPrefix,
              getFileItemId(Fresh(ExpectedStatus), Head(newwebsiteCodes),
                            event.filePathPrefix)),
          removeFromWebsites, Tail(newwebsiteCodes))

\* one iteration of the loop of lines 122-126, the service answering a write
\* with the given 2xx status
UpsertIteration(status) ==
    /\ pc = "loop"
    /\ removeFromWebsites = <<>>
    /\ newwebsiteCodes # <<>>
    /\ StepOutcome(
          UpsertStep(Cur, Head(newwebsiteCodes), event.rec, event.filePathPrefix,
              getFileItemId(Fresh(status), Head(newwebsiteCodes),
                            event.filePathPrefix)),
          removeFromWebsites, Tail(newwebsiteCodes))

\* the service answers as documented: 201 for an append, 200 for an update
UpdateMain_Upsert == UpsertIteration(ExpectedStatus)

\* what is remembered of the last engine call once main has returned: an
\* upsert that returned (the call a redelivered event repeats), else nothing
Settled(c) ==
    IF c.op = "createOrUpdateRows" /\ c.ok
    THEN [NoCall EXCEPT !.op = c.op, !.ok = TRUE, !.file = c.file, !.rec = c.rec,
                        !.rowId = c.rowId]
    ELSE NoCall

\* main returns: its locals are gone, the module-level state and the remote
\* tables stay
Leave(resp) ==
    /\ pc' = "idle"
    /\ response' = resp
    /\ event' = NoEvent
    /\ removeFromWebsites' = <<>>
    /\ newwebsiteCodes' = <<>>
    /\ trace' = <<>>
    /\ Commit([Cur EXCEPT !.reqs = <<>>])
    /\ call' = Settled(call)
    /\ UNCHANGED nEvents

\* lines 128-129
UpdateMain_Return ==
    /\ pc = "loop"
    /\ removeFromWebsites = <<>>
    /\ newwebsiteCodes = <<>>
    /\ Leave(actionSuccessResponse("Data synced successfully"))

\* variant: the catch block takes back the last row of every table an earlier
\* iteration of this invocation has written
UpdateMain_Catch_Compensating ==
    /\ pc = "catch"
    /\ pc' = "idle"
    /\ response' = actionErrorResponse(call.err)
    /\ event' = NoEvent
    /\ removeFromWebsites' = <<>>
    /\ newwebsiteCodes' = <<>>
    /\ trace' = <<>>
    /\ Commit([Cur EXCEPT
            !.reqs = <<>>,
            !.files = [f \in DOMAIN files |->
                IF \E i \in 1..Len(trace) : trace[i].ok /\ trace[i].file = f
                THEN [files[f] EXCEPT !.rows = SubSeq(@, 1, Len(@) - 1)]
                ELSE files[f]]])
    /\ call' = Settled(call)
    /\ UNCHANGED nEvents

\* lines 130-133: the error of the call that threw becomes the response
UpdateMain_Catch ==
    /\ pc = "catch"
    /\ Leave(actionErrorResponse(call.err))

\* the process before its first event; both workbooks follow the recognized
\* schema, the workbook of "sa" is a copy of the same template (same worksheet
\* and table ids) or has ids of its own
Init ==
    /\ \E sameIds \in BOOLEAN : EngineStart(getSheetColumnsToUpdate, sameIds)
    /\ RetryQuiet
    /\ ApiQuiet

Next ==
    \/ (\E ev \in Events : UpdateMain_Begin(ev)) /\ UNCHANGED <<retryVars, api>>
    \/ (\E ev \in DeleteEvents : DeleteMain_Begin(ev)) /\ UNCHANGED <<retryVars, api>>
    \/ UpdateMain_Deactivate /\ UNCHANGED <<retryVars, api>>
    \/ UpdateMain_Upsert /\ UNCHANGED <<retryVars, api>>
    \/ UpdateMain_Return /\ UNCHANGED <<retryVars, api>>
    \/ UpdateMain_Catch /\ UNCHANGED <<retryVars, api>>

Spec == Init /\ [][Next]_vars

\* The handlers against a service that may answer a write that it has carried
\* out with any 2xx status.
NextAny2xx ==
    \/ (\E ev \in Events : UpdateMain_Begin(ev)) /\ UNCHANGED <<retryVars, api>>
    \/ (\E ev \in DeleteEvents : DeleteMain_Begin(ev)) /\ UNCHANGED <<retryVars, api>>
    \/ (\E status \in WriteStatuses : DeactivateIteration(status))
            /\ UNCHANGED <<retryVars, api>>
    \/ (\E status \in WriteStatuses : UpsertIteration(status))
            /\ UNCHANGED <<retryVars, api>>
    \/ UpdateMain_Return /\ UNCHANGED <<retryVars, api>>
    \/ UpdateMain_Catch /\ UNCHANGED <<retryVars, api>>

SpecAny2xx == Init /\ [][NextAny2xx]_vars

\* The update handler on events whose website lists have one or two site
\* codes in either order, an empty segment between them, or none, for a
\* record whose schedule id is in the second row of the table of "ae"; api
\* keeps the lists the running invocation was called with.
NextDispatch ==
    \/ /\ \E pre_website, post_website \in
                WebsiteLists \cup {<<"sa", "ae">>, <<"sa", "", "ae">>} :
            /\ UpdateMain_Begin([rec |-> FullRec("n:2", "b:true", "s:plain"),
                                 pre_website |-> pre_website,
                                 post_website |-> post_website, brand |-> "hm"])
            /\ api' = [NoApi EXCEPT !.fn = "main",
                                    !.arg = <<pre_website, post_website>>]
       /\ UNCHANGED retryVars
    \/ UpdateMain_Deactivate /\ UNCHANGED <<retryVars, api>>
    \/ UpdateMain_Upsert /\ UNCHANGED <<retryVars, api>>
    \/ UpdateMain_Return /\ UNCHANGED <<retryVars, api>>
    \/ UpdateMain_Catch /\ UNCHANGED <<retryVars, api>>

SpecDispatch == Init /\ [][NextDispatch]_vars

-----------------------------------------------------------------------------
(* Vocabulary of the properties *)

IsFull(rec) == DOMAIN rec = FieldSet

\* the position (from 1) of the named column in the workbook's table
ColumnOf(wb, name) == CHOOSE i \in 1..Len(wb.columns) : wb.columns[i] = name

\* the data rows (from 1) whose schedule_id cell equals the key, integer-coerced
MatchingRows(wb, id) ==
    {i \in 1..Len(wb.rows) :
        StrictEqNum(ParseInt(wb.rows[i][ColumnOf(wb, "schedule_id")]), ParseInt(id))}

FirstMatch(wb, id) == CHOOSE i \in MatchingRows(wb, id) : \A j \in MatchingRows(wb, id) : i <= j

\* the locale of a site code: the code its store-code descriptor names, else itself
LocaleOf(siteCode) ==
    IF siteCode \in DOMAIN storeCodeMappingJson
    THEN storeCodeMappingJson[siteCode].code ELSE siteCode

\* the value the mapped vector holds for a field: status as 0/1, a localized
\* field's locale entry when it has one, every other value as it is
ExpectedCell(field, value, locale) ==
    CASE field = "status" -> parseBoolToInt(value)
      [] field \in LocalizedFields /\ JsonLookup(value, locale) # UNDEFINED
            -> JsonLookup(value, locale)
      [] OTHER -> value

\* the mapped column vector of a full record, in declared field order
ExpectedVector(rec, locale) ==
    [i \in 1..Len(getSheetColumnsToUpdate) |->
        ExpectedCell(getSheetColumnsToUpdate[i], rec[getSheetColumnsToUpdate[i]], locale)]

\* the requests of the engine call of the last step (after the file lookup)
EngineReqs(rq, c) == SubSeq(rq, c.first, Len(rq))

CountOf(rq, verb) == Cardinality({i \in 1..Len(rq) : rq[i].verb = verb})

Writes(rq) == {i \in 1..Len(rq) : rq[i].verb \in {"POST", "PATCH", "DELETE"}}

\* this step ran createOrUpdateRows / deactivateRow
UpsertCalled == Len(trace') = Len(trace) + 1 /\ call'.op = "createOrUpdateRows"
DeactivateCalled == Len(trace') = Len(trace) + 1 /\ call'.op = "deactivateRow"

OtherFilesUnchanged(f) == \A g \in (DOMAIN files) \ {f} : files'[g] = files[g]

-----------------------------------------------------------------------------
(* Properties *)

\* C1: a full record whose schedule_id matches no row of the target table:
\* createOrUpdateRows issues exactly one append and no positional update, the
\* table gains exactly one row, which is the mapped vector in declared field
\* order, and every other row stays as it was.
C1_AppendWhenAbsent ==
    [][ ( /\ UpsertCalled
          /\ IsFull(call'.rec)
          /\ call'.rowId # -2
          /\ MatchingRows(files[call'.file], call'.rec["schedule_id"]) = {} )
        => /\ call'.ok
           /\ call'.rowId = -1
           /\ CountOf(EngineReqs(reqs', call'), "POST") = 1
           /\ CountOf(EngineReqs(reqs', call'), "PATCH") = 0
           /\ files'[call'.file].rows =
                 Append(files[call'.file].rows,
                        ExpectedVector(call'.rec, LocaleOf(call'.site)))
           /\ OtherFilesUnchanged(call'.file) ]_vars

\* C1 witness: an upsert of a full record found no row and appended one
C1_Witness ==
    /\ call.op = "createOrUpdateRows"
    /\ IsFull(call.rec)
    /\ call.rowId = -1
    /\ call.ok
    /\ reqs[Len(reqs)].verb = "POST"
    /\ files[call.file].rows[Len(files[call.file].rows)]
          = ExpectedVector(call.rec, LocaleOf(call.site))

\* C2: a full record whose schedule_id matches a row, at whatever position:
\* createOrUpdateRows issues exactly one positional update, addressed at the
\* first matching row, and no append; that row becomes the mapped vector, the
\* row count and every other row stay as they were.
C2_UpdateWhenPresent ==
    [][ ( /\ UpsertCalled
          /\ IsFull(call'.rec)
          /\ call'.rowId # -2
          /\ MatchingRows(files[call'.file], call'.rec["schedule_id"]) # {} )
        => /\ call'.ok
           /\ CountOf(EngineReqs(reqs', call'), "POST") = 0
           /\ CountOf(EngineReqs(reqs', call'), "PATCH") = 1
           /\ reqs'[Len(reqs')].verb = "PATCH"
           /\ reqs'[Len(reqs')].idx
                 = FirstMatch(files[call'.file], call'.rec["schedule_id"]) - 1
           /\ files'[call'.file].rows =
                 [files[call'.file].rows EXCEPT
                    ![FirstMatch(files[call'.file], call'.rec["schedule_id"])] =
                        ExpectedVector(call'.rec, LocaleOf(call'.site))]
           /\ OtherFilesUnchanged(call'.file) ]_vars

\* C2 witness: an upsert of a full record found its row at index 0 (the first
\* data row) and overwrote it
C2_Witness ==
    /\ call.op = "createOrUpdateRows"
    /\ IsFull(call.rec)
    /\ call.rowId = 0
    /\ call.ok
    /\ reqs[Len(reqs)].verb = "PATCH"
    /\ reqs[Len(reqs)].idx = 0
    /\ files[call.file].rows[1] = ExpectedVector(call.rec, LocaleOf(call.site))

\* C3: createOrUpdateRows called twice in a row with the same full record,
\* whose schedule_id coerces to an integer, on the same table: the second
\* call leaves the table as the first call left it.
C3_Idempotent ==
    [][ ( /\ UpsertCalled
          /\ call'.repeat
          /\ IsFull(call'.rec)
          /\ ParseInt(call'.rec["schedule_id"]) # NaN )
        => files' = files ]_vars

\* C3 witness: the first call appended the row, the repeated call found it
\* and wrote it again
C3_Witness ==
    /\ call.op = "createOrUpdateRows"
    /\ call.repeat
    /\ IsFull(call.rec)
    /\ ParseInt(call.rec["schedule_id"]) # NaN
    /\ call.prevRowId = -1
    /\ call.rowId >= 0
    /\ call.ok

\* the record's row is active in the table: a row carries its schedule_id
\* with a status other than 0
ActiveIn(wb, id) ==
    \E i \in MatchingRows(wb, id) : wb.rows[i][ColumnOf(wb, "status")] # "n:0"

\* C4: deactivateRow on a schedule_id present in the table, at whatever
\* position (first data row included), succeeds and changes only the status
\* cell of that row, which becomes 0; every other cell and row stays.
C4_DeactivatePresent ==
    [][ ( /\ DeactivateCalled
          /\ call'.rowId # -2
          /\ MatchingRows(files[call'.file], ScheduleIdOf(call'.rec)) # {} )
        => /\ call'.ok
           /\ files'[call'.file].rows =
                 [files[call'.file].rows EXCEPT
                    ![FirstMatch(files[call'.file], ScheduleIdOf(call'.rec))]
                        [ColumnOf(files[call'.file], "status")] = "n:0"]
           /\ OtherFilesUnchanged(call'.file) ]_vars

\* C4 witness: a deactivation whose lookup found the row at index 0 ended in
\* a TypeError, with the row still active
C4_Witness ==
    /\ call.op = "deactivateRow"
    /\ call.rowId = 0
    /\ ~call.ok
    /\ call.err = ErrTypeError
    /\ ActiveIn(files[call.file], ScheduleIdOf(call.rec))

\* C5: deactivateRow with a schedule_id that matches no row fails with the
\* not-found error, reads no row, writes nothing, and the table stays as it was.
C5_DeactivateAbsent ==
    [][ ( /\ DeactivateCalled
          /\ call'.rowId # -2
          /\ MatchingRows(files[call'.file], ScheduleIdOf(call'.rec)) = {} )
        => /\ ~call'.ok
           /\ call'.err = ErrNoEntry
           /\ \A i \in 1..Len(reqs') : i >= call'.first => reqs'[i].res # "row"
           /\ Writes(EngineReqs(reqs', call')) = {}
           /\ files' = files ]_vars

\* C5 witness: a deactivation whose lookup found no row ended in the
\* not-found error
C5_Witness ==
    /\ call.op = "deactivateRow"
    /\ call.rowId = -1
    /\ ~call.ok
    /\ call.err = ErrNoEntry

\* C6: while the update handler processes an event, an upsert is issued only
\* after every deactivation of the removed sites has completed, in order, and
\* from then on the record is active in no removed site's table.
C6_DeactivationsBeforeUpserts ==
    \A j \in 1..Len(trace) :
        trace[j].kind = "createOrUpdateRows" =>
            /\ j > Len(event.removed)
            /\ \A k \in 1..Len(event.removed) :
                  /\ trace[k].kind = "deactivateRow"
                  /\ trace[k].site = event.removed[k]
                  /\ trace[k].ok
                  /\ ~ActiveIn(files[trace[k].file], ScheduleIdOf(event.rec))

\* C6 witness: an event that moves a record: its row was deactivated in the
\* removed site's table, then upserted, active, in the added site's table
C6_Witness ==
    /\ Len(trace) = 2
    /\ Len(event.removed) = 1
    /\ trace[1].kind = "deactivateRow" /\ trace[1].ok
    /\ trace[2].kind = "createOrUpdateRows" /\ trace[2].ok
    /\ trace[2].site # trace[1].site
    /\ ActiveIn(files[trace[2].file], ScheduleIdOf(event.rec))
    /\ ~ActiveIn(files[trace[1].file], ScheduleIdOf(event.rec))

\* C9: no append or positional update carries a vector whose length differs
\* from the number of recognized fields, and the upsert of a record that
\* misses a recognized field fails with an error and leaves the table as it was.
C9_NoMismatchedWrite ==
    [][ UpsertCalled
        => /\ \A i \in Writes(EngineReqs(reqs', call')) :
                Len(EngineReqs(reqs', call')[i].body) = Len(getSheetColumnsToUpdate)
           /\ ~IsFull(call'.rec)
                => /\ ~call'.ok
                   /\ call'.err # ""
                   /\ Writes(EngineReqs(reqs', call')) = {}
                   /\ files' = files ]_vars

\* C9 witness: the upsert of a record without its status field was refused
\* for its column count
C9_Witness ==
    /\ call.op = "createOrUpdateRows"
    /\ ~IsFull(call.rec)
    /\ call.rowId # -2
    /\ ~call.ok
    /\ call.err = ErrMismatch

\* C10: an upsert whose mapped vector has not the length of the recognized
\* fields is rejected with the column-count error before it has issued any
\* remote request.
C10_RejectedBeforeAnyRequest ==
    [][ ( /\ UpsertCalled
          /\ Len(prepareDataForUpdate(call'.rec, loadedStoreCode'))
                # Len(getSheetColumnsToUpdate)
          /\ call'.rowId # -2 )
        => /\ call'.err = ErrMismatch
           /\ EngineReqs(reqs', call') = <<>> ]_vars

\* C10 witness: an upsert refused for its column count after its row lookup
\* had read the key column
C10_Witness ==
    /\ call.op = "createOrUpdateRows"
    /\ call.err = ErrMismatch
    /\ \E i \in 1..Len(reqs) :
          i >= call.first /\ reqs[i].verb = "GET" /\ reqs[i].res = "column"

-----------------------------------------------------------------------------
(* The whole-file upload with conflict retry: src/utils/spo-file-update.js, *)
(* lines 478-523. The interval timer runs its callback every delayInMiliSec *)
(* whether or not earlier attempts have been answered; an attempt's         *)
(* response is handled whenever it arrives.                                 *)

delayInMiliSec == 500
tryUptoSec == 30
maxRetries == (tryUptoSec * 1000) \div delayInMiliSec

\* lockedFor of a write that stays locked whatever the attempt
AlwaysLocked == 1000

\* what the service answers to the k-th write attempt
OutcomeOf(k) == IF k <= lockedFor THEN "locked" ELSE afterLock

RetryInit ==
    /\ count = 0
    /\ retryInterval = "unset"
    /\ inFlight = {}
    /\ issued = 0
    /\ lockedFor \in {0, 3, AlwaysLocked}
    /\ afterLock \in {"ok", "error"}
    \* a lock that never ends leaves no answer after it
    /\ lockedFor = AlwaysLocked => afterLock = "error"
    /\ uploadReturned = FALSE
    /\ direct = NoUpload

\* variant: the first write attempt is made by the call itself, before the
\* timer's first interval
uploadFileToOneDrive_FirstAttemptNow ==
    /\ retryInterval = "unset"
    /\ retryInterval' = "armed"
    /\ count' = 0
    /\ uploadReturned' = TRUE
    /\ issued' = issued + 1
    /\ inFlight' = inFlight \cup {issued + 1}
    /\ UNCHANGED <<lockedFor, afterLock, direct>>

\* uploadFileToOneDrive, lines 478-486: retryFileUpload arms the timer
\* (lines 496-500, 521) and the call returns
uploadFileToOneDrive ==
    /\ retryInterval = "unset"
    /\ retryInterval' = "armed"
    /\ count' = 0
    /\ uploadReturned' = TRUE
    /\ UNCHANGED <<inFlight, issued, lockedFor, afterLock, direct>>

\* the timer fires: lines 501-506, up to the await of axios.put
Tick ==
    /\ retryInterval = "armed"
    /\ Cardinality(inFlight) < MaxInFlight
    /\ issued' = issued + 1
    /\ inFlight' = inFlight \cup {issued + 1}
    /\ UNCHANGED <<count, retryInterval, lockedFor, afterLock, uploadReturned, direct>>

\* variant: the timer is cleared at the ceiling only
ClearWhenDone_OnlyAtCeiling(newCount, shouldRetry) ==
    IF newCount = maxRetries THEN "cleared" ELSE retryInterval

\* lines 516-518
ClearWhenDone(newCount, shouldRetry) ==
    IF newCount = maxRetries \/ ~shouldRetry THEN "cleared" ELSE retryInterval

\* the response of attempt k arrives: lines 507-518
Respond(k) ==
    /\ k \in inFlight
    /\ inFlight' = inFlight \ {k}
    /\ count' = count + 1
    /\ retryInterval' = ClearWhenDone(count + 1, OutcomeOf(k) = "locked")
    /\ UNCHANGED <<issued, lockedFor, afterLock, uploadReturned, direct>>

InitRetry == EngineStart(getSheetColumnsToUpdate, TRUE) /\ RetryInit /\ ApiQuiet

NextRetry ==
    \/ uploadFileToOneDrive /\ UNCHANGED <<engineVars, handlerVars, api>>
    \/ Tick /\ UNCHANGED <<engineVars, handlerVars, api>>
    \/ (\E k \in inFlight : Respond(k)) /\ UNCHANGED <<engineVars, handlerVars, api>>

SpecRetry == InitRetry /\ [][NextRetry]_vars

-----------------------------------------------------------------------------
(* The whole-file upload, first version: src/utils/spo-file-update.js,      *)
(* lines 143-198. A write that meets a lock is followed by a delete of the  *)
(* file and one re-write. Upload n writes content n.                        *)

\* uploads in one process lifetime
MaxUploads == 3

\* lines 143-152: the call issues its PUT and awaits it
uploadFileToOneDrive_Direct ==
    /\ direct.pc = "idle"
    /\ direct.n < MaxUploads
    /\ direct' = [direct EXCEPT !.pc = "put", !.n = @ + 1]
    /\ UNCHANGED <<engineVars, handlerVars, api, count, retryInterval, inFlight, issued,
                   lockedFor, afterLock, uploadReturned>>

\* lines 152-162: the answer to the PUT. On a lock error deleteOnlyIfLocked
\* is called without await: it issues its DELETE and hands back a promise,
\* which is truthy, so putFileToOneDrive issues the re-write at once.
PutAnswered(outcome) ==
    /\ direct.pc = "put"
    /\ direct' = CASE outcome = "ok" -> [direct EXCEPT !.pc = "idle", !.resource = {direct.n}]
                  [] outcome = "error" -> [direct EXCEPT !.pc = "idle"]
                  [] outcome = "locked" ->
                        [direct EXCEPT !.pc = "rewrite", !.dels = @ \cup {direct.n}]
    /\ UNCHANGED <<engineVars, handlerVars, api, count, retryInterval, inFlight, issued,
                   lockedFor, afterLock, uploadReturned>>

\* lines 190-197: the answer to the DELETE of upload k, whenever it arrives;
\* nothing waits for it
deleteOnlyIfLocked(k, removed) ==
    /\ k \in direct.dels
    /\ direct' = [direct EXCEPT !.dels = @ \ {k},
                                !.deleted = IF removed THEN @ \cup {k} ELSE @,
                                !.resource = IF removed THEN {} ELSE @]
    /\ UNCHANGED <<engineVars, handlerVars, api, count, retryInterval, inFlight, issued,
                   lockedFor, afterLock, uploadReturned>>

\* lines 172-180: the answer to the re-write, which the call awaits
putFileToOneDrive(stored) ==
    /\ direct.pc = "rewrite"
    /\ direct' = [direct EXCEPT !.pc = "idle",
                                !.rewrote = IF stored THEN @ \cup {direct.n} ELSE @,
                                !.resource = IF stored THEN {direct.n} ELSE @]
    /\ UNCHANGED <<engineVars, handlerVars, api, count, retryInterval, inFlight, issued,
                   lockedFor, afterLock, uploadReturned>>

NextDirect ==
    \/ uploadFileToOneDrive_Direct
    \/ \E outcome \in {"ok", "error", "locked"} : PutAnswered(outcome)
    \/ \E k \in direct.dels, removed \in BOOLEAN : deleteOnlyIfLocked(k, removed)
    \/ \E stored \in BOOLEAN : putFileToOneDrive(stored)

SpecDirect == Init /\ [][NextDirect]_vars

-----------------------------------------------------------------------------
(* Properties of the conflict retry *)

\* C7: when write attempts 1, 2 and 3 meet a lock and attempt 4 succeeds,
\* the retry loop issues 4 write attempts and no more, whatever the time the
\* responses take.
C7_FourAttempts ==
    (lockedFor = 3 /\ afterLock = "ok") => issued <= 4

\* C7 witness: the loop has stopped after a success of attempt 4, with more
\* than 4 attempts issued
C7_Witness ==
    /\ lockedFor = 3
    /\ afterLock = "ok"
    /\ retryInterval = "cleared"
    /\ inFlight = {}
    /\ issued > 4

\* C8: when every write attempt meets a lock, the retry loop issues at most
\* maxRetries (60) attempts.
C8_AtMostMaxRetries ==
    lockedFor = AlwaysLocked => issued <= maxRetries

\* C8 witness: the timer was cleared on the 60th response, after more than 60
\* attempts had been issued
C8_Witness ==
    /\ lockedFor = AlwaysLocked
    /\ retryInterval = "cleared"
    /\ count >= maxRetries
    /\ issued > maxRetries

-----------------------------------------------------------------------------
(* The exported functions of sp-graph-api-util.js as any caller of the      *)
(* module may call them, one call at a time, on the module-level state.     *)

FileKW == "siteHM/kw"

\* the workbooks: "ae" holds schedule_id 2 twice (as the string "2" and as the
\* number 2); the table of "kw" lives on its second worksheet, the one the
\* store-code descriptor names
ApiFiles(sameIds) ==
    (FileAE :> Workbook("ws1", "t1", getSheetColumnsToUpdate,
                << RowFor(getSheetColumnsToUpdate, FullRec("n:1", "b:true", "s:plain"), "ae"),
                   RowFor(getSheetColumnsToUpdate, FullRec("s:2", "b:true", "s:plain"), "ae"),
                   RowFor(getSheetColumnsToUpdate, FullRec("n:2", "s:no", "s:plain"), "ae") >>))
    @@
    (FileSA :> Workbook(IF sameIds THEN "ws1" ELSE "ws2",
                        IF sameIds THEN "t1" ELSE "t2", getSheetColumnsToUpdate,
                << RowFor(getSheetColumnsToUpdate, FullRec("n:3", "b:true", "s:plain"), "sa") >>))
    @@
    (FileKW :> [sheets |-> << [id |-> "wsA", visibility |-> "Visible"],
                              [id |-> "wsKW", visibility |-> "Visible"] >>,
                tableSheet |-> "wsKW", tableId |-> "t3",
                columns |-> getSheetColumnsToUpdate,
                rows |-> << RowFor(getSheetColumnsToUpdate,
                                   FullRec("n:1", "b:true", "s:plain"), "kw") >>])

ApiKeys == {"n:1", "s:2", "s:3x", "s:abc"}
ApiStatusValues ==
    {"b:true", "b:false", "n:1", "n:0", "n:2", NULL, UNDEFINED,
     "s:true", "s:TRUE", "s:1", "s: 1 ", "s:on", "s:On", "s:yes", "s: Yes ",
     "s:false", "s:0", "s:", "s:  ", "s:no", "s:y", "s:truthy"}
ApiRecords ==
    { FullRec("n:1", st, desc) :
        st \in {"b:true", "s:no"},
        desc \in {LocaleJson, LocaleJsonAE, "s:plain", "s:null"} }
    \cup { Restrict(FullRec("n:1", "b:true", LocaleJson), FieldSet \ {"status"}),
           Restrict(FullRec("n:1", "b:true", LocaleJsonAE),
                    {"schedule_id", "description_en"}) }

\* the module as loaded (line 8), no handler and no upload running
SessionStart ==
    /\ loadedSiteId = NULL
    /\ loadedStoreCode = NULL
    /\ loadedHeaderRow = <<>>
    /\ loadedStore = [code |-> UNDEFINED, sheetId |-> UNDEFINED]
    /\ loadedWorkSheetId = NULL
    /\ loadedTableId = NULL
    /\ loadedAccessToken = NULL
    /\ loadedFilePath = NULL
    /\ reqs = <<>>
    /\ call = NoCall
    /\ pc = "idle"
    /\ event = NoEvent
    /\ removeFromWebsites = <<>>
    /\ newwebsiteCodes = <<>>
    /\ response = [ok |-> TRUE, message |-> ""]
    /\ nEvents = 0
    /\ trace = <<>>
    /\ RetryQuiet
    /\ ApiQuiet

InitApi ==
    /\ \E sameIds \in BOOLEAN : files = ApiFiles(sameIds)
    /\ SessionStart

\* the call returns or throws: r is its outcome
ApiReturn(fn, arg, site, r) ==
    /\ Commit(r.st)
    /\ api' = [fn |-> fn, arg |-> arg, ok |-> r.ok, val |-> r.val, err |-> r.err,
               site |-> site]
    /\ UNCHANGED <<call, handlerVars, retryVars>>

Api_setAccessToken ==
    /\ loadedAccessToken = NULL
    /\ ApiReturn("setAccessToken", "token", api.site,
                 Ok(setAccessToken(Fresh(ExpectedStatus), "token"), UNDEFINED))

Api_getSiteId(brand) ==
    \E r \in {getSiteId(Fresh(ExpectedStatus), brand)} :
        ApiReturn("getSiteId", brand, api.site, r)

\* getFileItemId and setFilePathToRead, as every handler pairs them
SelectFile(s, siteCode, filePathPrefix) ==
    Bind(getFileItemId(s, siteCode, filePathPrefix), LAMBDA fid :
        Ok(setFilePathToRead(fid.st, fid.val), fid.val))

Api_getFileItemId(siteCode) ==
    /\ ~Falsy(loadedSiteId)
    /\ \E r \in {SelectFile(Fresh(ExpectedStatus), siteCode, loadedSiteId)} :
          ApiReturn("getFileItemId", siteCode, siteCode, r)

Api_getFirstActiveWorksheetId ==
    \E r \in {getFirstActiveWorksheetId(Fresh(ExpectedStatus))} :
        ApiReturn("getFirstActiveWorksheetId", <<>>, api.site, r)

Api_findRowIndexByID(colName, valueToMatch) ==
    \E r \in {findRowIndexByID(Fresh(ExpectedStatus), colName, valueToMatch)} :
        ApiReturn("findRowIndexByID", <<colName, valueToMatch>>, api.site, r)

Api_deleteRow(scheduleId) ==
    \E status \in WriteStatuses :
    \E r \in {deleteRow(Fresh(status), scheduleId)} :
        ApiReturn("deleteRow", scheduleId, api.site, r)

NextApi ==
    \/ Api_setAccessToken
    \/ \E brand \in {"hm", UNDEFINED} : Api_getSiteId(brand)
    \/ \E siteCode \in {"ae", "sa", "kw"} : Api_getFileItemId(siteCode)
    \/ Api_getFirstActiveWorksheetId
    \/ \E colName \in {"schedule_id", "discount"}, valueToMatch \in ApiKeys :
          Api_findRowIndexByID(colName, valueToMatch)
    \/ \E scheduleId \in ApiKeys : Api_deleteRow(scheduleId)

SpecApi == InitApi /\ [][NextApi]_vars

-----------------------------------------------------------------------------
(* The resolution of site, file, worksheet, table and header map, on        *)
(* workbooks whose worksheets may be hidden or missing.                     *)

\* what the workbook of "sa" looks like
ResolveVariants ==
    {"sameIds", "ownIds", "hiddenFirst", "allHidden", "noSheets", "noTable"}

Sheet(id, visibility) == [id |-> id, visibility |-> visibility]

SheetsOfSA(variant) ==
    CASE variant = "sameIds" -> << Sheet("ws1", "Visible") >>
      [] variant = "ownIds" -> << Sheet("ws2", "Visible") >>
      [] variant = "hiddenFirst" -> << Sheet("ws0", "Hidden"), Sheet("ws2", "Visible") >>
      [] variant = "allHidden" -> << Sheet("ws2", "Hidden") >>
      [] variant = "noSheets" -> << >>
      [] variant = "noTable" -> << Sheet("ws2", "Visible") >>

ResolveFiles(variant) ==
    [ApiFiles(variant = "sameIds") EXCEPT
        ![FileSA].sheets = SheetsOfSA(variant),
        ![FileSA].tableSheet = IF variant = "noTable" THEN "" ELSE @]

InitResolve ==
    /\ \E variant \in ResolveVariants : files = ResolveFiles(variant)
    /\ SessionStart

Api_getFirstTable ==
    \E r \in {getFirstTable(Fresh(ExpectedStatus))} :
        ApiReturn("getFirstTable", <<>>, api.site, r)

Api_findColumnIndexByHeader(headerName) ==
    \E r \in {findColumnIndexByHeader(Fresh(ExpectedStatus), headerName)} :
        ApiReturn("findColumnIndexByHeader", headerName, api.site, r)

\* somebody unhides a hidden worksheet of a workbook
Remote_UnhideWorksheet(f) ==
    /\ \E i \in 1..Len(files[f].sheets) : files[f].sheets[i].visibility = "Hidden"
    /\ files' = [files EXCEPT ![f].sheets =
                    [i \in 1..Len(@) |-> Sheet(@[i].id, "Visible")]]
    /\ UNCHANGED <<loadedSiteId, loadedStoreCode, loadedHeaderRow, loadedStore,
                   loadedWorkSheetId, loadedTableId, loadedAccessToken,
                   loadedFilePath, reqs, call, handlerVars, retryVars, api>>

NextResolve ==
    \/ Api_setAccessToken
    \/ \E brand \in {"hm", "bbw", UNDEFINED} : Api_getSiteId(brand)
    \/ \E siteCode \in {"ae", "sa", "kw"} : Api_getFileItemId(siteCode)
    \/ Api_getFirstActiveWorksheetId
    \/ Api_getFirstTable
    \/ \E headerName \in {"schedule_id", "status", "discount"} :
          Api_findColumnIndexByHeader(headerName)
    \/ Api_findRowIndexByID("schedule_id", "n:1")
    \/ \E f \in DOMAIN files : Remote_UnhideWorksheet(f)

SpecResolve == InitResolve /\ [][NextResolve]_vars

-----------------------------------------------------------------------------
(* One session on one workbook, the one of "sa": after token, site and file  *)
(* are set, upserts, deactivations and deletions in any order.               *)

\* schedule ids of the operations: 3 is in the table at the start, 1 is not
OpsKeys == {"n:1", "n:3"}
OpNames == {"createOrUpdateRows", "deactivateRow", "deleteRow"}

Api_createOrUpdateRows(jsonData) ==
    /\ ~Falsy(loadedFilePath) => Len(files[loadedFilePath].rows) < MaxRows
    /\ \E r \in {createOrUpdateRows(Fresh(ExpectedStatus), jsonData)} :
          ApiReturn("createOrUpdateRows", ScheduleIdOf(jsonData), api.site, r)

Api_deactivateRow(scheduleId) ==
    \E r \in {deactivateRow(Fresh(ExpectedStatus), scheduleId)} :
        ApiReturn("deactivateRow", scheduleId, api.site, r)

NextOps ==
    \/ Api_setAccessToken
    \/ Api_getSiteId("hm")
    \/ Api_getFileItemId("sa")
    \/ \E scheduleId \in OpsKeys :
          Api_createOrUpdateRows(FullRec(scheduleId, "b:true", "s:plain"))
    \/ \E scheduleId \in OpsKeys : Api_deactivateRow(scheduleId)
    \/ \E scheduleId \in OpsKeys : Api_deleteRow(scheduleId)
    \/ Remote_UnhideWorksheet(FileSA)

\* the workbook of "sa" has a visible worksheet or none at all
InitOps ==
    /\ \E variant \in ResolveVariants \ {"allHidden"} : files = ResolveFiles(variant)
    /\ SessionStart

SpecOps == InitOps /\ [][NextOps]_vars

-----------------------------------------------------------------------------
(* The row operations on tables that declare their columns in another      *)
(* order than getSheetColumnsToUpdate, or that have no status column: the   *)
(* header map (lines 218-240) is read from the table, whatever it declares. *)

\* the tables declare the recognized fields in the order of the code, or with
\* status first, schedule_id tenth and channel_web last, or without status
InitLayout ==
    /\ \E layout \in
            { getSheetColumnsToUpdate,
              << "status", "rule_id", "rule_name", "coupon_type",
                 "description_en", "description_ar",
                 "short_terms_and_conditions_en", "short_terms_and_conditions_ar",
                 "url_key", "schedule_id", "channel_app",
                 "start_date", "end_date", "channel_web" >>,
              SubSeq(getSheetColumnsToUpdate, 1, 13) } :
          files = InitialFiles(layout, layout, TRUE)
    /\ SessionStart

\* schedule id 2 is in the table of "ae" at the start (second row), 3 is not
NextLayout ==
    \/ Api_setAccessToken
    \/ Api_getSiteId("hm")
    \/ Api_getFileItemId("ae")
    \/ \E scheduleId \in {"n:2", "n:3"} :
          Api_createOrUpdateRows(FullRec(scheduleId, "b:true", "s:plain"))
    \/ \E scheduleId \in {"n:2", "n:3"} : Api_deactivateRow(scheduleId)

SpecLayout == InitLayout /\ [][NextLayout]_vars

-----------------------------------------------------------------------------
(* The two pure functions of the row mapping, applied to one input each:    *)
(* the input is drawn at the start, the call returns its value.             *)

InitPure ==
    /\ EngineStart(getSheetColumnsToUpdate, TRUE)
    /\ RetryQuiet
    /\ \/ \E value \in ApiStatusValues : api = [NoApi EXCEPT !.fn = "parseBoolToInt", !.arg = value]
       \/ \E elem \in ApiRecords, storeCode \in {NULL, "ae", "sa", "kw"} :
             api = [NoApi EXCEPT !.fn = "prepareDataForUpdate",
                                 !.arg = <<elem, storeCode>>]

Api_parseBoolToInt ==
    /\ api.fn = "parseBoolToInt" /\ ~api.ok
    /\ api' = [api EXCEPT !.ok = TRUE, !.val = parseBoolToInt(api.arg)]
    /\ UNCHANGED <<engineVars, handlerVars, retryVars>>

Api_prepareDataForUpdate ==
    /\ api.fn = "prepareDataForUpdate" /\ ~api.ok
    /\ api' = [api EXCEPT !.ok = TRUE,
                          !.val = prepareDataForUpdate(api.arg[1], api.arg[2])]
    /\ UNCHANGED <<engineVars, handlerVars, retryVars>>

NextPure ==
    \/ Api_parseBoolToInt
    \/ Api_prepareDataForUpdate

SpecPure == InitPure /\ [][NextPure]_vars

-----------------------------------------------------------------------------
(* Properties of the engine's functions *)

\* the last call was fn and it returned
Returned(fn) == api.fn = fn /\ api.ok
\* the last call was fn and it threw
Threw(fn) == api.fn = fn /\ ~api.ok /\ api.err # ""

\* the workbook the engine is pointed at
CurrentBook == files[loadedFilePath]

\* C11: when findRowIndexByID("schedule_id", key) returns, its value is the
\* zero-based position, among the data rows of the table (header cell not
\* counted), of the first row whose schedule_id equals the key after integer
\* coercion of both, and -1 when no row does.
C11_FirstMatchOrMinusOne ==
    (Returned("findRowIndexByID") /\ api.arg[1] = "schedule_id")
        => api.val = IF MatchingRows(CurrentBook, api.arg[2]) = {} THEN -1
                     ELSE FirstMatch(CurrentBook, api.arg[2]) - 1

\* key "2" on the cells [header, 1, "2", 2]: two rows match, the first is at 1
C11_Witness ==
    /\ Returned("findRowIndexByID")
    /\ api.arg = <<"schedule_id", "s:2">>
    /\ api.val = 1
    /\ Cardinality(MatchingRows(CurrentBook, "s:2")) = 2

\* the inputs the function is to read as true: true, 1, and the strings
\* "true", "1", "on", "yes" in any letter case and inside any whitespace
TruthyInputs ==
    {"b:true", "n:1", "s:true", "s:TRUE", "s:1", "s: 1 ", "s:on", "s:On",
     "s:yes", "s: Yes "}

\* C12: parseBoolToInt returns 1 for exactly the truthy inputs and 0 for
\* every other input (false, 0, 2, null, undefined, "", blank, "0", "no",
\* "false", other strings); it never returns anything but 0 or 1.
C12_TruthyToOne ==
    Returned("parseBoolToInt")
        => /\ api.val \in {"n:0", "n:1"}
           /\ api.val = "n:1" <=> api.arg \in TruthyInputs

\* " Yes " has been mapped to 1
C12_Witness == Returned("parseBoolToInt") /\ api.arg = "s: Yes " /\ api.val = "n:1"

\* the fields of the declared order that the record carries
PresentKeys(elem) == SelectSeq(getSheetColumnsToUpdate, LAMBDA k : k \in DOMAIN elem)

\* C13: the vector prepareDataForUpdate returns holds one value per field the
\* record carries, in declared order; a localized field whose value is a JSON
\* object with the current store code as a key becomes that key's value; a
\* localized field whose value is not JSON, or is JSON without that key (or
\* no store code is set), keeps its raw value; every field that is neither
\* status nor localized keeps its value.
C13_LocaleOrRaw ==
    Returned("prepareDataForUpdate")
        => LET elem == api.arg[1]
               storeCode == api.arg[2]
               keys == PresentKeys(elem)
           IN /\ Len(api.val) = Len(keys)
              /\ \A i \in 1..Len(keys) :
                    keys[i] # "status"
                        => api.val[i] =
                            IF /\ keys[i] \in LocalizedFields
                               /\ storeCode # NULL
                               /\ JsonLookup(elem[keys[i]], storeCode) # UNDEFINED
                            THEN JsonLookup(elem[keys[i]], storeCode)
                            ELSE elem[keys[i]]

\* store code "sa": a description that has only the "ae" locale stays raw,
\* the terms that have both locales become the "sa" text
C13_Witness ==
    /\ Returned("prepareDataForUpdate")
    /\ api.arg[2] = "sa"
    /\ DOMAIN api.arg[1] = FieldSet
    /\ api.arg[1]["description_en"] = LocaleJsonAE
    /\ api.val[5] = LocaleJsonAE
    /\ api.val[7] = "s:Sale SA"

\* C14: main returns its success response only when every createOrUpdateRows
\* and deactivateRow call of the invocation returned true, that is, obtained
\* the status it expects (201 for an append, 200 for an update); a call that
\* returned false shows in the response.
C14_SuccessOnlyIfAllSaved ==
    [][(pc = "loop" /\ pc' = "idle" /\ response'.ok)
            => \A i \in 1..Len(trace) : trace[i].val]_vars

\* main is about to return success although an engine call returned false
C14_Witness ==
    /\ pc = "loop"
    /\ removeFromWebsites = <<>> /\ newwebsiteCodes = <<>>
    /\ \E i \in 1..Len(trace) : trace[i].ok /\ ~trace[i].val

\* C15: when an iteration of a handler's loops throws, neither that iteration
\* nor the catch block changes any table (what earlier iterations wrote for
\* other site codes stays written: no rollback, no compensating write), and
\* the catch block ends the invocation with the error response that carries
\* the thrown error's message.
C15_NoRollbackOnFailure ==
    [][/\ (pc = "loop" /\ pc' = "catch") => files' = files
       /\ pc = "catch" => /\ files' = files
                          /\ pc' = "idle"
                          /\ response' = actionErrorResponse(call.err)]_vars

\* an upsert for an earlier site code has returned and its row is in that
\* site's table; the call for a later site code has thrown
C15_Witness ==
    /\ pc = "catch"
    /\ \E i \in 1..(Len(trace) - 1) :
          /\ trace[i].ok
          /\ trace[i].kind = "createOrUpdateRows"
          /\ trace[i].file # trace[Len(trace)].file
          /\ MatchingRows(files[trace[i].file], ScheduleIdOf(event.rec)) # {}

\* the call that has just been made issued a DELETE
DeleteIssued == \E i \in 1..Len(reqs') : reqs'[i].verb = "DELETE"

\* C16: a deleteRow call whose row lookup returns removes the first row that
\* carries the schedule_id and nothing else when there is such a row; when
\* there is none it returns (the absence is no failure) and every table is
\* as it was.
C16_DeleteExactlyTheMatch ==
    [][(api'.fn = "deleteRow" /\ DeleteIssued)
            => IF MatchingRows(CurrentBook, api'.arg) # {}
               THEN /\ files'[loadedFilePath].rows =
                          RemoveAt(CurrentBook.rows, FirstMatch(CurrentBook, api'.arg))
                    /\ OtherFilesUnchanged(loadedFilePath)
               ELSE api'.ok /\ files' = files]_vars

\* deleteRow has thrown after a DELETE of row -1, sent for an id no row carries
C16_Witness ==
    /\ Threw("deleteRow")
    /\ \E i \in 1..Len(reqs) : reqs[i].verb = "DELETE" /\ reqs[i].idx = -1
    /\ MatchingRows(CurrentBook, api.arg) = {}

\* C17: a getSiteId call without a brand throws the configuration error
\* "Brand is not set in the params" and issues no request, whatever the
\* module-level state is (a site id resolved by an earlier call included).
C17_NoBrandAlwaysFails ==
    (api.fn = "getSiteId" /\ api.arg = UNDEFINED)
        => /\ ~api.ok
           /\ api.err = ErrBrandUnset
           /\ reqs = <<>>

\* getSiteId without a brand has returned a site id
C17_Witness ==
    /\ Returned("getSiteId")
    /\ api.arg = UNDEFINED
    /\ api.val = "siteHM"

\* the override worksheet id of a site code's descriptor, "" when it has none
OverrideOf(siteCode) ==
    IF siteCode \in DOMAIN storeCodeMappingJson
    THEN storeCodeMappingJson[siteCode].sheetId ELSE ""

\* C18: whenever the descriptor of the site code whose file was selected last
\* carries a non-empty override worksheet id, getFirstActiveWorksheetId
\* returns that id and issues no worksheet-listing request, for the first
\* site code of a session and for every later one.
C18_OverrideWins ==
    (api.fn = "getFirstActiveWorksheetId" /\ OverrideOf(api.site) # "")
        => /\ api.ok
           /\ api.val = OverrideOf(api.site)
           /\ reqs = <<>>

\* "kw" is selected, its descriptor names "wsKW", and the call has returned
\* the worksheet id of a site code selected before
C18_Witness ==
    /\ Returned("getFirstActiveWorksheetId")
    /\ api.site = "kw"
    /\ api.val # "wsKW"
    /\ loadedFilePath = FileKW

\* C19: every request a handler's engine call issues for a worksheet, a
\* table, its columns or its rows carries the worksheet id and the table id
\* of the workbook it is addressed to, the one of the site code in process.
C19_OwnIdsPerSite ==
    \A i \in 1..Len(reqs) :
        reqs[i].file \in DOMAIN files
            => /\ reqs[i].ws # "" => reqs[i].ws = files[reqs[i].file].sheets[1].id
               /\ reqs[i].t # "" => reqs[i].t = files[reqs[i].file].tableId

\* a request for the table of "sa" carries the ids of the workbook of "ae"
C19_Witness ==
    \E i \in 1..Len(reqs) :
        /\ reqs[i].file = FileSA
        /\ reqs[i].ws = files[FileAE].sheets[1].id
        /\ reqs[i].ws # files[FileSA].sheets[1].id

\* the call listed the table's columns and the listing was answered
HeaderListed ==
    \E i \in 1..Len(reqs) :
        /\ reqs[i].res = "columns"
        /\ TableAddressed(files, reqs[i].file, reqs[i].ws, reqs[i].t)

\* C20: a findRowIndexByID call for a column name that is not a key of the
\* header map it has resolved throws the schema error "Column not found" and
\* issues no read of column values.
C20_UnknownColumnRejected ==
    (api.fn = "findRowIndexByID" /\ HeaderListed
        /\ api.arg[1] \notin DOMAIN loadedHeaderRow)
        => /\ ~api.ok
           /\ api.err = ErrColumn
           /\ \A i \in 1..Len(reqs) : reqs[i].res # "column"

\* the column "discount" is in no table; the call has read column values at
\* an undefined index and the read has failed
C20_Witness ==
    /\ Threw("findRowIndexByID")
    /\ api.arg[1] = "discount"
    /\ api.err = ErrRequestFailed
    /\ \E i \in 1..Len(reqs) : reqs[i].res = "column"

-----------------------------------------------------------------------------
(* Properties of the resolution of worksheet, table and header map *)

\* C21: a findColumnIndexByHeader call that has listed the table's columns
\* returns, for a name the table has, the zero-based position of that column
\* (0 for the first column), and for a name the table does not have -1; it
\* does not throw.
C21_IndexOrSentinel ==
    (api.fn = "findColumnIndexByHeader" /\ HeaderListed)
        => /\ api.ok
           /\ api.val = IF \E i \in 1..Len(CurrentBook.columns) :
                               CurrentBook.columns[i] = api.arg
                        THEN ColumnOf(CurrentBook, api.arg) - 1
                        ELSE -1

\* the first column of the table, "schedule_id", has been looked up and the
\* call has returned -1
C21_Witness ==
    /\ Returned("findColumnIndexByHeader")
    /\ HeaderListed
    /\ api.arg = "schedule_id"
    /\ CurrentBook.columns[1] = "schedule_id"
    /\ api.val = -1

\* this step is a call of a resolving function: such calls only read the
\* workbooks, and every other step changes one
ApiCalled == files' = files

\* the requests of the call made in this step that list the given resource
Listings(res) == {i \in 1..Len(reqs') : reqs'[i].res = res}

\* C22: once the header map has been resolved, no later engine call lists
\* the table's columns again, and the map stays as it is.
C22_HeaderListedOnce ==
    [][(ApiCalled /\ loadedHeaderRow # <<>>)
            => /\ Listings("columns") = {}
               /\ loadedHeaderRow' = loadedHeaderRow]_vars

\* the header map is filled, and the call just made has listed the columns
\* all the same
C22_Witness ==
    /\ loadedHeaderRow # <<>>
    /\ HeaderLength(loadedHeaderRow) = 0
    /\ api.fn = "findRowIndexByID"
    /\ Cardinality({i \in 1..Len(reqs) : reqs[i].res = "columns"}) = 1
    /\ \A i \in 1..Len(reqs) : reqs[i].res \notin {"worksheets", "tables"}

\* the workbook address the engine resolves for a site code
AddressOf(siteCode) == loadedSiteId \o "/" \o LocaleOf(siteCode)

\* C24: a getSiteId call made when the site id is resolved, and a
\* getFileItemId call for the site code whose workbook is the one selected,
\* issue no request; a getSiteId call for a brand with a configured site id
\* issues no request in any state.
C24_IdentityResolvedOnce ==
    [][/\ (ApiCalled /\ api'.fn = "getSiteId" /\ ~Falsy(loadedSiteId))
            => reqs' = <<>>
       /\ (ApiCalled /\ api'.fn = "getFileItemId" /\ ~Falsy(loadedSiteId)
            /\ api'.arg = api.site /\ loadedFilePath = AddressOf(api.site))
            => reqs' = <<>>
       /\ (ApiCalled /\ api'.fn = "getSiteId" /\ api'.arg = "bbw")
            => reqs' = <<>>]_vars

\* the worksheet id in the memo is the one of the workbook of "sa", so that
\* workbook was selected before; it has just been selected again, with a
\* file lookup request
C24_Witness ==
    /\ Returned("getFileItemId")
    /\ api.arg = "sa"
    /\ loadedWorkSheetId = "ws2"
    /\ \E i \in 1..Len(reqs) : reqs[i].res = "file" /\ reqs[i].file = FileSA

\* the call made in this step threw right after its request for res
FailedAt(res) ==
    /\ ~api'.ok
    /\ reqs' # <<>>
    /\ reqs'[Len(reqs')].res = res

MemoUnchanged(names) ==
    /\ "worksheet" \in names => loadedWorkSheetId' = loadedWorkSheetId
    /\ "table" \in names => loadedTableId' = loadedTableId
    /\ "header" \in names => loadedHeaderRow' = loadedHeaderRow

\* a call that needs the worksheet id finds token and file path set, no
\* memo and no override
WorksheetUnresolved ==
    /\ api'.fn \in {"getFirstActiveWorksheetId", "getFirstTable",
                    "findColumnIndexByHeader", "findRowIndexByID"}
    /\ Falsy(loadedWorkSheetId)
    /\ loadedStore.sheetId \in {UNDEFINED, ""}
    /\ ~Falsy(loadedAccessToken)
    /\ ~Falsy(loadedFilePath)

\* C25 as stated: a call in which the resolution of the worksheet, of the
\* table or of the header map fails leaves worksheet id, table id and header
\* map, all three, as they were before the call.
C25_FailureLeavesAllMemos ==
    [][(ApiCalled /\ (FailedAt("worksheets") \/ FailedAt("tables") \/ FailedAt("columns")))
            => MemoUnchanged({"worksheet", "table", "header"})]_vars

\* C25, amended: a failed resolution is not stored. A failed worksheet
\* listing leaves worksheet id, table id and header map as they were; a
\* failed table listing leaves table id and header map as they were; a
\* failed column listing leaves the header map as it was (what the same call
\* resolved before the failure stays memoized). While the worksheet id is
\* unresolved every call that needs it lists the worksheets again, and
\* returns the first visible one once the workbook has one.
C25_FailureNotStored ==
    [][ApiCalled =>
        /\ FailedAt("worksheets") => MemoUnchanged({"worksheet", "table", "header"})
        /\ FailedAt("tables") => MemoUnchanged({"table", "header"})
        /\ FailedAt("columns") => MemoUnchanged({"header"})
        /\ WorksheetUnresolved
            => /\ Listings("worksheets") # {}
               /\ (\E i \in 1..Len(CurrentBook.sheets) :
                        CurrentBook.sheets[i].visibility = "Visible")
                    => loadedWorkSheetId' \in SheetIds(CurrentBook)]_vars

\* the table listing of a workbook without a table has failed: no table id
\* is stored, the worksheet id resolved on the way is
C25_Witness ==
    /\ Threw("getFirstTable")
    /\ api.err = ErrNoTable
    /\ loadedTableId = NULL
    /\ loadedWorkSheetId = "ws2"

VisibleSheets(book) == SelectSeq(book.sheets, LAMBDA w : w.visibility = "Visible")

\* C26: a worksheet discovery that lists the worksheets returns the id of
\* the first one marked Visible in listing order, and fails with the
\* not-found error when the listing has no visible worksheet, be it empty or
\* all hidden.
C26_FirstVisibleOrNotFound ==
    [][(ApiCalled /\ api'.fn = "getFirstActiveWorksheetId" /\ Listings("worksheets") # {})
            => IF Len(VisibleSheets(CurrentBook)) > 0
               THEN api'.ok /\ api'.val = VisibleSheets(CurrentBook)[1].id
               ELSE ~api'.ok /\ api'.err = ErrNoWorksheet]_vars

\* the discovery has skipped a hidden first worksheet
C26_Witness ==
    /\ Returned("getFirstActiveWorksheetId")
    /\ reqs # <<>>
    /\ Len(CurrentBook.sheets) = 2
    /\ CurrentBook.sheets[1].visibility = "Hidden"
    /\ api.val = CurrentBook.sheets[2].id

\* the requests that address the workbook (all but site and file lookup)
WorkbookRequests == {i \in 1..Len(reqs) : reqs[i].res \notin {"site", "file"}}

ResolvingCalls ==
    {"getFileItemId", "getFirstActiveWorksheetId", "getFirstTable",
     "findColumnIndexByHeader", "findRowIndexByID"}

\* C27: the engine issues no request while the access token is unset and no
\* request on the workbook while the file path is unset; a call that would
\* need one throws "Access token is not set yet", respectively "File path is
\* not set yet", before any request.
C27_NoRequestUnconfigured ==
    /\ Falsy(loadedAccessToken)
        => /\ reqs = <<>>
           /\ (api.fn \in ResolvingCalls /\ ~api.ok) => api.err = ErrTokenUnset
           /\ (api.fn = "getSiteId" /\ ~api.ok) => api.err \in {ErrTokenUnset, ErrBrandUnset}
    /\ Falsy(loadedFilePath)
        => /\ WorkbookRequests = {}
           /\ (~Falsy(loadedAccessToken) /\ api.fn \in ResolvingCalls \ {"getFileItemId"}
                    /\ ~api.ok)
                => api.err = ErrPathUnset

\* a file lookup made with a configured site id and no token has thrown
\* without a request
C27_Witness ==
    /\ Threw("getFileItemId")
    /\ api.err = ErrTokenUnset
    /\ ~Falsy(loadedSiteId)
    /\ Falsy(loadedAccessToken)
    /\ reqs = <<>>

-----------------------------------------------------------------------------
(* Properties of the operations of one session on one workbook *)

\* this step is an upsert, a deactivation or a deletion (a remote step changes
\* the worksheets, an operation never does)
OpCalled ==
    /\ api'.fn \in OpNames
    /\ \A f \in DOMAIN files : files'[f].sheets = files[f].sheets

ListedBefore(res) == \E i \in 1..Len(reqs) : reqs[i].res = res

\* C23 as stated, for two operations in a row: the worksheet listing and the
\* table listing are each issued at most once in the session, so an operation
\* that follows one which listed the worksheets (tables) does not list them
\* again; and a memoized id never changes.
C23_ListedAtMostOnce ==
    [][OpCalled =>
        /\ (api.fn \in OpNames /\ ListedBefore("worksheets")) => Listings("worksheets") = {}
        /\ (api.fn \in OpNames /\ ListedBefore("tables")) => Listings("tables") = {}
        /\ ~Falsy(loadedWorkSheetId) => loadedWorkSheetId' = loadedWorkSheetId
        /\ ~Falsy(loadedTableId) => loadedTableId' = loadedTableId]_vars

\* C23, amended: once the worksheet id (the table id) is memoized, no upsert,
\* deactivation or deletion lists the worksheets (the tables) again and the
\* id never changes; one operation issues each listing at most once.
C23_MemoizedOnce ==
    [][OpCalled =>
        /\ ~Falsy(loadedWorkSheetId)
            => loadedWorkSheetId' = loadedWorkSheetId /\ Listings("worksheets") = {}
        /\ ~Falsy(loadedTableId)
            => loadedTableId' = loadedTableId /\ Listings("tables") = {}
        /\ Cardinality(Listings("worksheets")) <= 1
        /\ Cardinality(Listings("tables")) <= 1]_vars

\* a deletion has gone through on memoized ids: no listing among its requests
C23_Witness ==
    /\ Returned("deleteRow")
    /\ \E i \in 1..Len(reqs) : reqs[i].verb = "DELETE"
    /\ ~ListedBefore("worksheets")
    /\ ~ListedBefore("tables")
    /\ loadedWorkSheetId = "ws2"
    /\ loadedTableId = "t2"

\* a request for res precedes request i in the log of the call
Preceded(i, res) == \E j \in 1..(i - 1) : reqs[j].res = res

\* C28: in the request log of one engine call every request comes after the
\* response it depends on: the table listing carries the resolved worksheet
\* id and follows the worksheet listing, the column listing carries the
\* resolved table id and follows the table listing, the key-column read
\* follows a column listing, the row read of deactivate follows the
\* key-column read, and every write (append, update, deactivate patch,
\* delete) follows the key-column read and addresses the resolved ids.
C28_RequestsInDependencyOrder ==
    \A i \in 1..Len(reqs) :
        /\ reqs[i].res = "tables"
            => /\ reqs[i].ws = loadedWorkSheetId
               /\ ~Falsy(reqs[i].ws)
               /\ \A j \in 1..Len(reqs) : reqs[j].res = "worksheets" => j < i
        /\ reqs[i].res = "columns"
            => /\ reqs[i].t = loadedTableId
               /\ ~Falsy(reqs[i].t)
               /\ \A j \in 1..Len(reqs) : reqs[j].res = "tables" => j < i
        /\ reqs[i].res = "column"
            => /\ Preceded(i, "columns")
               /\ loadedHeaderRow # <<>>
        /\ (reqs[i].res = "row" /\ reqs[i].verb = "GET")
            => Preceded(i, "column")
        /\ reqs[i].verb \in {"POST", "PATCH", "DELETE"}
            => /\ Preceded(i, "column")
               /\ reqs[i].ws = loadedWorkSheetId
               /\ reqs[i].t = loadedTableId
               /\ (api.fn = "deactivateRow" => Preceded(i, "row"))

\* a deactivation has gone through: lookup, row read and patch in its log
C28_Witness ==
    /\ Returned("deactivateRow")
    /\ \E i \in 1..Len(reqs) : reqs[i].verb = "PATCH" /\ Preceded(i, "row")

-----------------------------------------------------------------------------
(* Properties of the end of the conflict retry *)

\* the response of attempt k is handled in this step
Handled(k) == k \in inFlight /\ k \notin inFlight'

EndedWithoutSuccess ==
    /\ retryInterval = "cleared"
    /\ inFlight = {}
    /\ \A k \in 1..issued : OutcomeOf(k) # "ok"

\* C30: when the retried write ends without success (the lock lasted to the
\* ceiling, or an error other than the lock), the upload has not returned
\* normally to uploadExcelWorkBook, so that neither updateExcel /
\* removeFromExcel nor the handler reports the save as done.
C30_FailureSurfaced ==
    EndedWithoutSuccess => ~uploadReturned

\* the first attempt failed with an error other than the lock after the
\* upload call had returned to its caller
C30_Witness ==
    /\ EndedWithoutSuccess
    /\ lockedFor = 0
    /\ afterLock = "error"
    /\ issued >= 1
    /\ uploadReturned

\* C31: the retrying upload is fire-and-forget: the call returns to its
\* caller with no write attempt issued, every attempt is issued by the timer
\* after the call has returned (the first one at the timer's first firing,
\* one interval after arming), and no response ever takes the return back.
C31_FireAndForget ==
    [][/\ (~uploadReturned /\ uploadReturned') => (issued' = 0 /\ inFlight' = {})
       /\ issued' > issued => (uploadReturned /\ retryInterval = "armed")
       /\ uploadReturned => uploadReturned']_vars

\* the call has returned, the timer is armed and has not fired yet
C31_Witness ==
    /\ uploadReturned
    /\ retryInterval = "armed"
    /\ issued = 0
    /\ inFlight = {}

\* C32: after a write has failed on a lock the re-write is issued only when
\* the delete of that upload has completed and removed the file, and the
\* file is never deleted by an upload whose re-write has stored its content.
C32_RewriteAfterDelete ==
    [][/\ (direct.pc = "put" /\ direct'.pc = "rewrite") => direct'.n \in direct'.deleted
       /\ \A k \in direct.dels :
            (k \notin direct'.dels /\ k \in direct.rewrote) => direct'.resource # {}]_vars

\* the re-write of an upload has stored its content and the delete of the same
\* upload has removed the file afterwards
C32_Witness ==
    /\ direct.pc = "idle"
    /\ direct.n \in direct.rewrote
    /\ direct.n \in direct.deleted
    /\ direct.resource = {}

\* C33: in retryFileUpload at most one write attempt is awaiting its response
\* at any time.
C33_OneInFlight ==
    Cardinality(inFlight) <= 1

\* two attempts are awaiting their responses while the timer is still armed
C33_Witness ==
    /\ retryInterval = "armed"
    /\ Cardinality(inFlight) >= 2

\* C38: a getSiteId call that returns for a brand returns the site id of that
\* brand (the configured one, or else the one the service reports for the
\* brand's URL key), whatever was resolved before in the same process.
C38_SiteIdOfCalledBrand ==
    (Returned("getSiteId") /\ api.arg \in {"hm", "bbw"})
        => api.val = IF ~Falsy(BrandSiteIdOf(api.arg)) THEN BrandSiteIdOf(api.arg)
                     ELSE RemoteSiteOf(UrlKeyOf(api.arg))

\* getSiteId was called for brand bbw and returned the site id of brand hm,
\* without a request
C38_Witness ==
    /\ Returned("getSiteId")
    /\ api.arg = "bbw"
    /\ api.val = "siteHM"
    /\ reqs = <<>>

-----------------------------------------------------------------------------
(* Properties of the row operations on any column layout *)

\* the positions (from 1) of the column named f in a workbook's table
ColumnsNamed(book, f) == {i \in 1..Len(book.columns) : book.columns[i] = f}

\* C34: when deactivateRow returns true, the row it wrote back has 0 in the
\* table's status column; a table without a usable status index makes it fail.
C34_DeactivatedOrFailed ==
    (Returned("deactivateRow") /\ api.val = TRUE)
        => \E i \in ColumnsNamed(CurrentBook, "status") :
           \E k \in 1..Len(reqs) : reqs[k].verb = "PATCH" /\ reqs[k].body[i] = "n:0"

\* deactivateRow has returned true after writing the row back as it had read
\* it, on a table whose status column is the first one or is missing
C34_Witness ==
    /\ Returned("deactivateRow")
    /\ api.val = TRUE
    /\ \A i \in ColumnsNamed(CurrentBook, "status") : i = 1
    /\ \E k \in 1..Len(reqs) :
          /\ reqs[k].verb = "PATCH"
          /\ reqs[k].body = CurrentBook.rows[reqs[k].idx + 1]
          /\ \A i \in ColumnsNamed(CurrentBook, "status") : reqs[k].body[i] # "n:0"

\* the requests of the last call that write a row
RowWrites == {k \in 1..Len(reqs) : reqs[k].verb \in {"POST", "PATCH"}}

\* C36: on a table that declares the 14 recognized fields, in any order, a
\* createOrUpdateRows call that returns true has written a row whose cell in
\* the column named f holds the mapped value of field f of the record.
C36_CellsUnderTheirNames ==
    (/\ Returned("createOrUpdateRows")
     /\ api.val = TRUE
     /\ \A f \in FieldSet : ColumnsNamed(CurrentBook, f) # {})
        => \A k \in RowWrites : \A f \in FieldSet : \A i \in ColumnsNamed(CurrentBook, f) :
              reqs[k].body[i] = MapValue(f, FullRec(api.arg, "b:true", "s:plain")[f],
                                         loadedStoreCode)

\* an upsert of schedule id 3 has returned true on a table that declares the
\* 14 fields with schedule_id tenth, and the row it stored has the value of
\* channel_web in the schedule_id column
C36_Witness ==
    /\ Returned("createOrUpdateRows")
    /\ api.val = TRUE
    /\ api.arg = "n:3"
    /\ \A f \in FieldSet : ColumnsNamed(CurrentBook, f) # {}
    /\ ColumnsNamed(CurrentBook, "schedule_id") = {10}
    /\ RowWrites # {}
    /\ CurrentBook.rows[Len(CurrentBook.rows)][10] = "n:1"

\* the integer-coerced schedule ids of a workbook's rows, read in the
\* table's schedule_id column (row positions from 1)
KeyAt(book, r) ==
    ParseInt(book.rows[r][CHOOSE i \in ColumnsNamed(book, "schedule_id") : TRUE])

\* C35: in a table that started with no two rows of the same integer-coerced
\* schedule_id, no two rows share one after any sequence of createOrUpdateRows
\* and deactivateRow calls with integer ids.
C35_KeysStayUnique ==
    \A f \in DOMAIN files : \A r1, r2 \in 1..Len(files[f].rows) :
        (r1 # r2 /\ KeyAt(files[f], r1) # NaN) => KeyAt(files[f], r1) # KeyAt(files[f], r2)

\* an upsert of schedule id 3 has returned true, and two rows of the table
\* have the integer 1 in the schedule_id column
C35_Witness ==
    /\ Returned("createOrUpdateRows")
    /\ api.val = TRUE
    /\ api.arg = "n:3"
    /\ \E r1, r2 \in 1..Len(CurrentBook.rows) :
          /\ r1 # r2
          /\ KeyAt(CurrentBook, r1) = "n:1"
          /\ KeyAt(CurrentBook, r2) = "n:1"

-----------------------------------------------------------------------------
(* Properties of the handlers' loops *)

\* the last iteration of the running invocation has failed
IterationFailed == trace # <<>> /\ ~trace[Len(trace)].ok

\* C37: once the processing of a site code has failed inside an invocation,
\* the invocation ends with the error: no request is issued and no table is
\* touched for a later site code, and after a failed deactivation no upsert
\* of the event is made.
C37_FailureEndsTheEvent ==
    [][IterationFailed
        => /\ pc' = "idle"
           /\ trace' = <<>>
           /\ reqs' = <<>>
           /\ files' = files
           /\ ~response'.ok
           /\ \A i \in 1..Len(trace) :
                 trace[i].kind = "createOrUpdateRows"
                    => \A k \in 1..Len(trace) : trace[k].kind = "deactivateRow" => trace[k].ok]_vars

\* the deactivation for the event's first site code has failed while the
\* event still has a site code to upsert
C37_Witness ==
    /\ IterationFailed
    /\ trace[Len(trace)].kind = "deactivateRow"
    /\ removeFromWebsites # <<>>
    /\ newwebsiteCodes # <<>>
    /\ pc = "catch"

\* the site codes of a list, as a set
CodesOf(list) == {list[i] : i \in 1..Len(list)}

\* the lists of site codes the claim names, for the website lists the running
\* invocation was called with
Dropped(a) == SelectSeq(a.arg[1], LAMBDA c : c # "" /\ c \notin CodesOf(a.arg[2]))
Kept(a) == SelectSeq(a.arg[2], LAMBDA c : c # "")

\* C39: an invocation of the update handler deactivates, in order, the
\* non-empty site codes of pre_website that are not in post_website and then
\* upserts the non-empty site codes of post_website, no site code receiving
\* both; when both lists are empty it answers 'No changes to update' without
\* acquiring a credential or issuing a request, and only then.
C39_Dispatch ==
    /\ [](pc # "idle" =>
            /\ \A i \in 1..Len(trace) :
                  IF i <= Len(Dropped(api))
                  THEN /\ trace[i].kind = "deactivateRow"
                       /\ trace[i].site = Dropped(api)[i]
                  ELSE /\ trace[i].kind = "createOrUpdateRows"
                       /\ i - Len(Dropped(api)) <= Len(Kept(api))
                       /\ trace[i].site = Kept(api)[i - Len(Dropped(api))]
            /\ \A i, j \in 1..Len(trace) :
                  trace[i].kind # trace[j].kind => trace[i].site # trace[j].site
            /\ (pc = "loop" /\ removeFromWebsites = <<>> /\ newwebsiteCodes = <<>>)
                  => Len(trace) = Len(Dropped(api)) + Len(Kept(api)))
    /\ [][nEvents' # nEvents =>
            /\ (Len(Dropped(api')) + Len(Kept(api')) = 0)
                  => /\ pc' = "idle"
                     /\ reqs' = <<>>
                     /\ loadedAccessToken' = loadedAccessToken
                     /\ files' = files
            /\ (pc' = "idle" /\ response'.ok)
                  <=> (/\ Len(Dropped(api')) + Len(Kept(api')) = 0
                       /\ response' = actionSuccessResponse("No changes to update"))]_vars

\* an event that keeps one site code and drops another has run to its end:
\* one deactivation, for the dropped code, then one upsert, for the kept one
C39_Witness ==
    /\ pc = "loop"
    /\ removeFromWebsites = <<>>
    /\ newwebsiteCodes = <<>>
    /\ api.arg = << <<"sa", "", "ae">>, <<"sa">> >>
    /\ Len(trace) = 2
    /\ trace[1].site = "ae" /\ trace[1].kind = "deactivateRow"
    /\ trace[2].site = "sa" /\ trace[2].kind = "createOrUpdateRows"

====
